---- MODULE Spec2Model ----
(***************************************************************************)
(* The iterative synthesis controller of the synthesis package:            *)
(* SynthesisPipeline.run (synthesis_loop.py), evaluate_candidate           *)
(* (evaluation.py), PythonExecutor.run (plugins/python_executor.py),       *)
(* SynthesisState (tasks.py) and the prompt builders (prompts.py).         *)
(*                                                                         *)
(* Candidate source text is modelled by what executing it does: whether it *)
(* loads, what it binds the entry point to, what the call on each example  *)
(* returns or raises, and which arguments the call overwrites in place.    *)
(* The backend is a nondeterministic environment that answers or raises    *)
(* (Spec), or a double with scripted replies (SpecRerun, SpecGuidance).    *)
(* SpecEval applies evaluate_candidate to one candidate and one task.      *)
(*                                                                         *)
(* Scores are exact fractions [num, den].  The code computes them as       *)
(* floats, 1.0 - min(f, t) / t; for the small t of the model the float     *)
(* comparisons used here (score > score, score >= threshold, score == 1.0) *)
(* agree with the exact ones.                                              *)
(***************************************************************************)
EXTENDS Integers, Sequences, FiniteSets, TLC

VARIABLES
    config,            \* SynthesisConfig: max_iterations, score_threshold
    task,              \* the TaskSpecification handed to run / evaluate_candidate
    pc,                \* position of the control flow
    attempt,           \* loop variable of run (0 before the loop)
    state,             \* SynthesisState: attempt counter and history
    last_state,        \* SynthesisPipeline._last_state: "None" or "state" (a reference)
    guidance_override, \* Optional[str]: <<>> or <<text>>
    best_outcome,      \* Optional[EvaluationOutcome]: <<>> or <<outcome>>
    candidate,         \* the CandidateProgram of the current attempt: <<>> or <<cand>>
    outcome,           \* the outcome of the current attempt: <<>> or <<outcome>>
    execution,         \* what the last executor run did: <<>> or <<[report, invoked]>>
    prompt,            \* the last prompt sent to the backend: <<>> or <<prompt>>
    llm_calls,         \* generate calls received by the backend, by purpose
    returned,          \* the value run returned: <<>> or <<outcome>>
    canned,            \* the backend: <<>> (any backend) or <<its scripted replies>>
    first_run,         \* what an earlier run on this pipeline gave: <<>> or <<r>>
    workers,           \* the runs of concurrent workers: <<>> or one record each
    safe_builtins,     \* the module's table _SAFE_BUILTINS
    batch,             \* the batch driver: <<>> or the locals of its main
    diagnosis          \* the diagnostic tool: <<>> or a failure and its parse

vars == <<config, task, pc, attempt, state, last_state, guidance_override,
          best_outcome, candidate, outcome, execution, prompt,
          llm_calls, returned, canned, first_run, workers, safe_builtins,
          batch, diagnosis>>

----------------------------------------------------------------------------
(* Bounds of the model *)

MaxIterations == 2
MaxExamples == 2
MaxEvalExamples == 4
MaxRerunIterations == 1
MaxRerunExamples == 1
MaxGuidanceIterations == 3
MaxGuidanceExamples == 1
MaxPromptHistory == 2
MaxSourceLen == 4
MaxTagLen == 1
MaxWorkerIterations == 2
MaxWorkerExamples == 1
MaxBatchTasks == 2
MaxBatchTrain == 1
MaxBatchIterations == 2
MaxWords == 1
MaxLiveIterations == 2
MaxLiveExamples == 1
MaxEarlyIterations == 3
MaxThresholdExamples == 99
MaxThresholdCalled == 3

(* Program constants *)
DefaultThresholdPct == 99

----------------------------------------------------------------------------
(* Value domains *)

\* Return values of a candidate call and expected values of examples.
Values == {"v0", "v1"}

\* The outcome of a call that raises an Exception.
Raises == "raise"

\* What a guarded call of the entry point on one example can do.
CallResults == Values \cup {Raises}

\* What escapes the guards of the executor: a call that raises a
\* BaseException that is no Exception ("abort"), and a returned value whose
\* comparison with the expected value raises ("unequatable").
EscapingResults == {"abort", "unequatable"}

AllCallResults == CallResults \cup EscapingResults

\* The content of an argument that a call has overwritten in place.
Overwritten == 0

\* Configured thresholds, in (0, 1] as exact fractions.
Thresholds == { [num |-> 1, den |-> 2],
                [num |-> DefaultThresholdPct, den |-> 100] }

\* The text of a reply to a reflection request is padding around a body;
\* the body is empty or the advice a of the backend.
EmptyText == <<>>
AdviceOf(a) == <<"advice", a>>

\* Replies to a reflection request: an empty text, a text of white space
\* only, and the advice a surrounded by white space.
ReflectionTexts(a) ==
    { [pad |-> FALSE, body |-> EmptyText],
      [pad |-> TRUE, body |-> EmptyText],
      [pad |-> TRUE, body |-> AdviceOf(a)] }

\* str.strip
Strip(text) == text.body

\* DEFAULT_GUIDELINES of the prompt builder
DefaultGuidelines == <<"default guidelines">>

\* meta["source"] of a generation; "absent" is a meta without the key.
MetaSources == {"absent", "canned"}

Max(a, b) == IF a >= b THEN a ELSE b
Min(a, b) == IF a <= b THEN a ELSE b

\* Exact comparison of two fractions with positive denominators.
ScoreGT(a, b) == a.num * b.den > b.num * a.den
ScoreGE(a, b) == a.num * b.den >= b.num * a.den
ScoreEQ(a, b) == a.num * b.den = b.num * a.den

----------------------------------------------------------------------------
(* Tasks and candidate programs *)

\* IOExample: the i-th example carries argument i and an expected value.
ExamplesOfLen(n) ==
    { [i \in 1..n |-> [args |-> i, expected |-> f[i]]] : f \in [1..n -> Values] }

TasksUpTo(maxn) ==
    { [entry_point |-> "solve", examples |-> ex] :
        ex \in UNION { ExamplesOfLen(n) : n \in 0..maxn } }

\* The tasks handed to run: 0..MaxExamples examples, expected values alternating.
RunTasks ==
    { [entry_point |-> "solve",
       examples |-> [i \in 1..n |->
                       [args |-> i,
                        expected |-> IF i % 2 = 1 THEN "v0" ELSE "v1"]]] :
        n \in 0..MaxExamples }

\* What executing a source text does on a task with n examples:
\*   load     "ok", "error" (an Exception at load time) or "abort" (a
\*            BaseException that is no Exception at load time);
\*   entry    what the namespace binds the entry point to: "absent", "value"
\*            (not callable) or "callable";
\*   result   what the call on the i-th example does while its argument is
\*            as given (calling what is not callable raises TypeError);
\*   mutates  the examples whose argument the call overwrites in place;
\*   on_dirty what the call does on an overwritten argument.
Program(load, entry, result, mutates, on_dirty) ==
    [load |-> load, entry |-> entry, result |-> result, mutates |-> mutates,
     on_dirty |-> on_dirty]

\* The programs that leave their arguments alone and whose exceptions the
\* executor catches.
ProgramsFor(n) ==
    { Program("error", "absent", <<>>, {}, Raises),
      Program("ok", "absent", [i \in 1..n |-> Raises], {}, Raises),
      Program("ok", "value", [i \in 1..n |-> Raises], {}, Raises) }
    \cup { Program("ok", "callable", r, {}, Raises) :
              r \in [1..n -> CallResults] }

\* The programs that leave their arguments alone and let an exception escape
\* the executor, at load time or on some example.
EscapingProgramsFor(n) ==
    { Program("abort", "absent", <<>>, {}, Raises) }
    \cup { Program("ok", "callable", r, {}, Raises) :
              r \in { q \in [1..n -> AllCallResults] :
                        \E i \in 1..n : q[i] \in EscapingResults } }

\* The guarded programs that may overwrite their arguments.
MutatingProgramsFor(n) ==
    { Program("ok", "callable", r, m, d) :
        r \in [1..n -> CallResults], m \in SUBSET (1..n), d \in CallResults }

\* CandidateProgram(code, language, attempt, origin)
CandidateProgram(code, n, origin) ==
    [code |-> code, attempt |-> n, origin |-> origin]

----------------------------------------------------------------------------
(* PythonExecutor (plugins/python_executor.py) *)

\* The names of _SAFE_BUILTINS; one name stands for the fifteen
SafeNames == {"len"}

\* _SAFE_BUILTINS: each allowed name bound to the built-in of that name
SafeBuiltins == [name \in SafeNames |-> "builtin"]

\* _format_compile_error: "Compilation error: <summary>"
FormatCompileError(code) == <<"Compilation error", code.load>>

\* A load failure that reports one message per example and none without examples
FailureCountNoFloor(t) == Len(t.examples)

\* failure_count of a load failure
FailureCount(t) == Max(Len(t.examples), 1)

\* "Entry point '<name>' not found in candidate program."
EntryPointFailure(t) == <<"Entry point not found", t.entry_point>>

\* "Runtime error: <repr of the exception>"
RuntimeFailure == <<"Runtime error", "Exception()">>

\* "Mismatch for input args=.. kwargs=..: expected .. got .."
MismatchFailure(ex, result) == <<"Mismatch", ex.args, ex.expected, result>>

\* The accumulators of the example loop; invoked is the trace of the calls
\* of the entry point (example indices, in call order).
EmptyRun == [outputs |-> <<>>, failures |-> <<>>, invoked |-> <<>>]

\* A raising call that is skipped without a failure entry
OnRaiseSwallowed(acc, i) == [acc EXCEPT !.invoked = Append(@, i)]

\* except Exception: record the failure and continue with the next example
OnRaise(acc, i) ==
    [acc EXCEPT !.failures = Append(@, RuntimeFailure),
                !.invoked = Append(@, i)]

\* The call returned: keep the output, compare it with the expected value
OnReturn(acc, ex, result, i) ==
    LET kept == [acc EXCEPT !.outputs = Append(@, result),
                            !.invoked = Append(@, i)]
    IN  IF result /= ex.expected
        THEN [kept EXCEPT !.failures = Append(@, MismatchFailure(ex, result))]
        ELSE kept

\* A check that only asks whether the name is bound
EntryCallableIfBound(code) == code.entry /= "absent"

\* callable(namespace.get(task.entry_point))
EntryCallable(code) == code.entry = "callable"

\* What entry(*example.args, **example.kwargs) does on the i-th example
EffectiveResult(code, ex, i) ==
    IF ex.args = Overwritten THEN code.on_dirty ELSE code.result[i]

\* The i-th example after the call: the call received the argument object
\* itself and may have overwritten it
AfterCall(code, ex, i) ==
    IF i \in code.mutates THEN [ex EXCEPT !.args = Overwritten] ELSE ex

\* One iteration of "for example in task.examples"
InvokeExample(acc, code, ex, i) ==
    IF EffectiveResult(code, ex, i) = Raises
    THEN OnRaise(acc, i)
    ELSE OnReturn(acc, AfterCall(code, ex, i), EffectiveResult(code, ex, i), i)

\* An example loop that ends at the first failing example
RECURSIVE RunExamplesUntilFailure(_, _, _, _)
RunExamplesUntilFailure(code, examples, i, acc) ==
    IF i > Len(examples) \/ acc.failures /= <<>>
    THEN acc
    ELSE RunExamplesUntilFailure(code, examples, i + 1,
                                 InvokeExample(acc, code, examples[i], i))

RECURSIVE RunExamples(_, _, _, _)
RunExamples(code, examples, i, acc) ==
    IF i > Len(examples)
    THEN acc
    ELSE RunExamples(code, examples, i + 1,
                     InvokeExample(acc, code, examples[i], i))

\* passed = not failures
ReportPassed(failures) == failures = <<>>

\* An exception leaves PythonExecutor.run: "except Exception" catches no
\* other BaseException, at load time or in a call, and the comparison
\* result != example.expected stands outside the try
Escapes(code, t) ==
    \/ code.load = "abort"
    \/ /\ code.load = "ok"
       /\ EntryCallable(code)
       /\ \E i \in DOMAIN t.examples :
             EffectiveResult(code, t.examples[i], i) \in EscapingResults

\* The first example whose call or comparison lets an exception escape
\* (past the last example when there is none)
FirstEscape(code, t) ==
    IF \E i \in DOMAIN t.examples :
           EffectiveResult(code, t.examples[i], i) \in EscapingResults
    THEN CHOOSE i \in DOMAIN t.examples :
           /\ EffectiveResult(code, t.examples[i], i) \in EscapingResults
           /\ \A j \in 1..(i - 1) :
                 EffectiveResult(code, t.examples[j], j) \notin EscapingResults
    ELSE Len(t.examples) + 1

\* The task after PythonExecutor.run: the examples that were called hold
\* what the calls left in their arguments
TaskAfter(code, t) ==
    IF code.load = "ok" /\ EntryCallable(code)
    THEN [t EXCEPT !.examples =
            [i \in DOMAIN t.examples |->
                IF i <= FirstEscape(code, t)
                THEN AfterCall(code, t.examples[i], i)
                ELSE t.examples[i]]]
    ELSE t

\* PythonExecutor.run when no exception escapes: the ExecutionReport and the
\* trace of invocations
ExecutorRun(cand, t) ==
    IF cand.code.load /= "ok"
    THEN [report |-> [passed |-> FALSE, outputs |-> <<>>,
                      failures |-> [i \in 1..FailureCount(t) |->
                                        FormatCompileError(cand.code)]],
          invoked |-> <<>>]
    ELSE IF ~EntryCallable(cand.code)
    THEN [report |-> [passed |-> FALSE, outputs |-> <<>>,
                      failures |-> <<EntryPointFailure(t)>>],
          invoked |-> <<>>]
    ELSE LET acc == RunExamples(cand.code, t.examples, 1, EmptyRun)
         IN  [report |-> [passed |-> ReportPassed(acc.failures),
                          outputs |-> acc.outputs,
                          failures |-> acc.failures],
              invoked |-> acc.invoked]

----------------------------------------------------------------------------
(* evaluate_candidate (evaluation.py) *)

\* One case more than the task has examples
TotalCasesOneMore(t) == Max(Len(t.examples), 1) + 1

\* total_cases = max(len(task.examples), 1)
TotalCases(t) == Max(Len(t.examples), 1)

\* The ratio taken with floor division
FailureRatioFloor(report, t) ==
    [num |-> (Min(Len(report.failures), Max(Len(t.examples), 1))
                 \div Max(Len(t.examples), 1)) * Max(Len(t.examples), 1),
     den |-> Max(Len(t.examples), 1)]

\* failure_ratio = min(len(report.failures), total_cases) / total_cases
FailureRatio(report, t) ==
    [num |-> Min(Len(report.failures), TotalCases(t)), den |-> TotalCases(t)]

\* score = max(0.0, 1.0 - failure_ratio)
Score(report, t) ==
    LET ratio == FailureRatio(report, t)
    IN  [num |-> Max(0, ratio.den - ratio.num), den |-> ratio.den]

\* A feedback that names no failure
FeedbackHeaderOnly(report) ==
    IF report.passed
    THEN [header |-> "All tests passed.", lines |-> <<>>]
    ELSE [header |-> "Failures detected:", lines |-> <<>>]

\* "All tests passed." or "Failures detected:" and the failures, one a line
Feedback(report) ==
    IF report.passed
    THEN [header |-> "All tests passed.", lines |-> <<>>]
    ELSE [header |-> "Failures detected:", lines |-> report.failures]

\* An outcome whose feedback lists the failures last first
OutcomeOfReversed(report, t) ==
    [passed |-> report.passed,
     score |-> Score(report, t),
     feedback |->
        [header |-> Feedback(report).header,
         lines |-> [k \in DOMAIN Feedback(report).lines |->
                       report.failures[Len(report.failures) + 1 - k]]],
     details |-> [outputs |-> report.outputs, failures |-> report.failures]]

\* The EvaluationOutcome built from an ExecutionReport
OutcomeOf(report, t) ==
    [passed |-> report.passed,
     score |-> Score(report, t),
     feedback |-> Feedback(report),
     details |-> [outputs |-> report.outputs, failures |-> report.failures]]

EvaluateCandidate(cand, t) == OutcomeOf(ExecutorRun(cand, t).report, t)

----------------------------------------------------------------------------
(* SynthesisState (tasks.py) *)

\* A record that takes the place of the history
RecordOverwriting(st, cand, out) ==
    [attempt |-> st.attempt + 1,
     history |-> <<[attempt |-> cand.attempt, code |-> cand.code,
                    passed |-> out.passed, score |-> out.score,
                    feedback |-> out.feedback]>>]

\* SynthesisState.record
Record(st, cand, out) ==
    [attempt |-> st.attempt + 1,
     history |-> Append(st.history,
                        [attempt |-> cand.attempt,
                         code |-> cand.code,
                         passed |-> out.passed,
                         score |-> out.score,
                         feedback |-> out.feedback])]

RECURSIVE MaxScore(_, _)
\* max(scores) over history[1..n], the first maximum on ties
MaxScore(history, n) ==
    IF n = 1
    THEN history[1].score
    ELSE LET rest == MaxScore(history, n - 1)
         IN  IF ScoreGT(history[n].score, rest) THEN history[n].score ELSE rest

\* A best score that is the score of the latest attempt
BestScoreLatest(st) ==
    IF st.history = <<>>
    THEN [num |-> 0, den |-> 1]
    ELSE st.history[Len(st.history)].score

\* SynthesisState.best_score
BestScore(st) ==
    IF st.history = <<>>
    THEN [num |-> 0, den |-> 1]
    ELSE MaxScore(st.history, Len(st.history))

----------------------------------------------------------------------------
(* Prompt builders (prompts.py) *)

\* The ":.2f" rendering of a score, in hundredths (no score of the model
\* lies half way between two hundredths).
Fmt2(score) == (200 * score.num + score.den) \div (2 * score.den)

\* build_synthesis_prompt
BuildSynthesisPrompt(t, st, system_guidelines) ==
    [kind |-> "synthesis",
     guidance |-> IF system_guidelines = <<>> \/ system_guidelines = <<EmptyText>>
                  THEN DefaultGuidelines
                  ELSE system_guidelines[1],
     examples |-> t.examples,
     digest |-> IF st.history = <<>>
                THEN <<>>
                ELSE LET last == st.history[Len(st.history)]
                     IN  <<[attempt |-> last.attempt,
                            best_score |-> Fmt2(BestScore(st)),
                            feedback |-> last.feedback,
                            passed |-> last.passed]>>]

\* build_reflection_prompt
BuildReflectionPrompt(t, cand, out) ==
    [kind |-> "reflection",
     status |-> IF out.passed THEN "passed" ELSE "failed",
     score |-> Fmt2(out.score),
     code |-> cand.code,
     feedback |-> out.feedback]

----------------------------------------------------------------------------
(* SynthesisPipeline (synthesis_loop.py) *)

\* _extract_code: the inner content of the first fenced block when the text
\* holds one, else the whole text (both trimmed)
ExtractCode(text) == text.body

\* generation.meta.get("source", "llm")
OriginOf(gen) == IF gen.source = "absent" THEN "llm" ELSE gen.source

\* The loop range one attempt too long, and one attempt too short
AttemptRangeOneMore == 1..(config.max_iterations + 1)
AttemptRangeOneLess == 1..(config.max_iterations - 1)

\* for attempt in range(1, self.config.max_iterations + 1)
AttemptRange == 1..config.max_iterations

\* A loop that never breaks, and a loop that breaks on a pass only
ShouldStopNever(out) == FALSE
ShouldStopOnPassOnly(out) == out.passed

\* if outcome.passed or outcome.score >= self.config.score_threshold: break
ShouldStop(out) == out.passed \/ ScoreGE(out.score, config.score_threshold)

\* The first outcome stays the best one
SelectBestFirst(current, cand) ==
    IF current = <<>> THEN cand ELSE current[1]

\* The comparison of the scores reversed: the lower score wins
SelectBestReversed(current, cand) ==
    IF current = <<>>
    THEN cand
    ELSE IF ScoreGT(current[1].score, cand.score)
         THEN cand
         ELSE current[1]

\* The latest outcome always wins, and a tie replaces the best outcome
SelectBestLatest(current, cand) == cand
SelectBestOnTie(current, cand) ==
    IF current = <<>>
    THEN cand
    ELSE IF ScoreGE(cand.score, current[1].score)
         THEN cand
         ELSE current[1]

\* _select_best
SelectBest(current, cand) ==
    IF current = <<>>
    THEN cand
    ELSE IF ScoreGT(cand.score, current[1].score)
         THEN cand
         ELSE current[1]

\* A guidance that always follows the latest reflection
NextGuidanceLatest(text, current) == <<Strip(text)>>

\* reflection.text.strip() or guidance_override
NextGuidance(text, current) ==
    IF Strip(text) /= EmptyText THEN <<Strip(text)>> ELSE current

\* assert best_outcome is not None; return best_outcome. The assert
\* statement is compiled away when the interpreter runs with -O or with
\* PYTHONOPTIMIZE set: with no best outcome run then returns None
\* ("RETURNED_NONE") in place of raising AssertionError ("ASSERT_FAILED")
ReturnBest(best, terminal) ==
    IF best = <<>>
    THEN pc' \in {"ASSERT_FAILED", "RETURNED_NONE"} /\ returned' = <<>>
    ELSE pc' = terminal /\ returned' = best

\* The attributes and properties of a SynthesisPipeline object
PipelineAttributes == {"llm", "config", "executor", "_last_state", "last_state"}

\* The replies any backend may give to a synthesis request with the program
\* code: a text, fenced or not, holding it, and a meta with or without the
\* key "source"
SynthesisReplies(code) ==
    [text : [fenced : BOOLEAN, body : {code}], source : MetaSources]

\* A backend of scripted replies: one canned response to the synthesis
\* requests of the task and the texts it gives to the reflection requests,
\* in order
ScriptedBackend(synthesis, reflection) ==
    [synthesis |-> synthesis, reflection |-> reflection]

\* The programs generate may give on a synthesis prompt whose exceptions
\* the executor catches: any with any backend, the one of the canned
\* response with a scripted one
BackendPrograms ==
    IF canned = <<>>
    THEN ProgramsFor(Len(task.examples))
    ELSE {canned[1].synthesis.text.body}

\* The replies of generate that hold the program code
BackendReplies(code) ==
    IF canned = <<>>
    THEN SynthesisReplies(code)
    ELSE {canned[1].synthesis}

\* generate on the i-th reflection prompt: any reply of any backend, the
\* i-th text of a scripted one (an empty text past the end of the script)
ReflectionReplies(i) ==
    IF canned = <<>>
    THEN ReflectionTexts(0)
    ELSE IF i \in DOMAIN canned[1].reflection
         THEN {canned[1].reflection[i]}
         ELSE {[pad |-> FALSE, body |-> EmptyText]}

\* run, up to the loop header: a fresh state, no guidance, no best outcome
BeginRun ==
    /\ state' = [attempt |-> 0, history |-> <<>>]
    /\ last_state' = "state"
    /\ guidance_override' = <<>>
    /\ best_outcome' = <<>>
    /\ IF 1 \in AttemptRange
       THEN attempt' = 1 /\ pc' = "GENERATE" /\ returned' = <<>>
       ELSE attempt' = attempt /\ ReturnBest(<<>>, "EXHAUSTED")
    /\ UNCHANGED <<diagnosis, batch, workers, safe_builtins, config, task, candidate, outcome, execution,
                   prompt, llm_calls, canned>>

\* run is called on a new pipeline
RunStart ==
    /\ pc = "NOT_STARTED"
    /\ BeginRun
    /\ UNCHANGED first_run

\* run is called a second time on the same pipeline with the same task
\* object, after the first call returned
RunAgain ==
    /\ pc \in {"PASSED", "EXHAUSTED"}
    /\ first_run = <<>>
    /\ first_run' = <<[returned |-> returned, history |-> state.history]>>
    /\ BeginRun

\* One attempt up to the termination check: the synthesis prompt is built,
\* the backend answers it, the code is extracted, evaluated and recorded,
\* and the best outcome is updated
Attempt ==
    /\ pc = "GENERATE"
    /\ prompt' = <<BuildSynthesisPrompt(task, state, guidance_override)>>
    /\ llm_calls' = [llm_calls EXCEPT !.synthesis = @ + 1]
    /\ \E code \in BackendPrograms :
        /\ ~Escapes(code, task)
        /\ \E gen \in BackendReplies(code) :
          LET cand == CandidateProgram(ExtractCode(gen.text), attempt,
                                       OriginOf(gen))
              out == EvaluateCandidate(cand, task)
              best == <<SelectBest(best_outcome, out)>>
          IN  /\ candidate' = <<cand>>
              /\ execution' = <<ExecutorRun(cand, task)>>
              /\ task' = TaskAfter(cand.code, task)
              /\ outcome' = <<out>>
              /\ state' = Record(state, cand, out)
              /\ best_outcome' = best
              /\ IF ShouldStop(out)
                 THEN ReturnBest(best, "PASSED")
                 ELSE pc' = "REFLECT" /\ returned' = returned
    /\ UNCHANGED <<diagnosis, batch, workers, safe_builtins, config, attempt, last_state, guidance_override,
                   canned, first_run>>

\* An attempt whose candidate lets an exception escape the executor: the
\* exception leaves evaluate_candidate and run, nothing is recorded and the
\* locals of run are lost with its frame
AttemptAborted ==
    /\ pc = "GENERATE"
    /\ prompt' = <<BuildSynthesisPrompt(task, state, guidance_override)>>
    /\ llm_calls' = [llm_calls EXCEPT !.synthesis = @ + 1]
    /\ canned = <<>>
    /\ { code \in EscapingProgramsFor(Len(task.examples)) :
            Escapes(code, task) } /= {}
    /\ pc' = "CANDIDATE_RAISED"
    /\ UNCHANGED <<diagnosis, batch, workers, safe_builtins, config, task, attempt, state, last_state, guidance_override,
                   best_outcome, candidate, outcome, execution,
                   returned, canned, first_run>>

\* A backend error on the synthesis request that run catches, repeating the
\* request
SynthesisRaisesRetried ==
    /\ pc = "GENERATE"
    /\ prompt' = <<BuildSynthesisPrompt(task, state, guidance_override)>>
    /\ llm_calls' = [llm_calls EXCEPT !.synthesis = Min(@ + 1, MaxIterations + 2)]
    /\ pc' = "GENERATE"
    /\ UNCHANGED <<diagnosis, batch, workers, safe_builtins, config, task, attempt, state, last_state, guidance_override,
                   best_outcome, candidate, outcome, execution,
                   returned, canned, first_run>>

\* The backend raises on the synthesis request: the exception leaves run
SynthesisRaises ==
    /\ pc = "GENERATE"
    /\ prompt' = <<BuildSynthesisPrompt(task, state, guidance_override)>>
    /\ llm_calls' = [llm_calls EXCEPT !.synthesis = @ + 1]
    /\ pc' = "RAISED"
    /\ UNCHANGED <<diagnosis, batch, workers, safe_builtins, config, task, attempt, state, last_state, guidance_override,
                   best_outcome, candidate, outcome, execution,
                   returned, canned, first_run>>

\* A reflection step after which the loop does not advance
ReflectStuck ==
    /\ pc = "REFLECT"
    /\ prompt' = <<BuildReflectionPrompt(task, candidate[1], outcome[1])>>
    /\ llm_calls' = [llm_calls EXCEPT
                        !.reflection = Min(@ + 1, MaxIterations + 2)]
    /\ pc' = "REFLECT"
    /\ UNCHANGED <<diagnosis, batch, workers, safe_builtins, config, task,
                   attempt, state, last_state, guidance_override,
                   best_outcome, candidate, outcome, execution, returned,
                   canned, first_run>>

\* The reflection prompt is built and answered, then the loop header runs
Reflect ==
    /\ pc = "REFLECT"
    /\ prompt' = <<BuildReflectionPrompt(task, candidate[1], outcome[1])>>
    /\ llm_calls' = [llm_calls EXCEPT !.reflection = @ + 1]
    /\ \E text \in ReflectionReplies(llm_calls.reflection + 1) :
          guidance_override' = NextGuidance(text, guidance_override)
    /\ IF attempt + 1 \in AttemptRange
       THEN attempt' = attempt + 1 /\ pc' = "GENERATE" /\ returned' = returned
       ELSE attempt' = attempt /\ ReturnBest(best_outcome, "EXHAUSTED")
    /\ UNCHANGED <<diagnosis, batch, workers, safe_builtins, config, task, state, last_state, best_outcome,
                   candidate, outcome, execution, canned, first_run>>

\* The backend raises on the reflection request: the exception leaves run
ReflectionRaises ==
    /\ pc = "REFLECT"
    /\ prompt' = <<BuildReflectionPrompt(task, candidate[1], outcome[1])>>
    /\ llm_calls' = [llm_calls EXCEPT !.reflection = @ + 1]
    /\ pc' = "RAISED"
    /\ UNCHANGED <<diagnosis, batch, workers, safe_builtins, config, task, attempt, state, last_state, guidance_override,
                   best_outcome, candidate, outcome, execution,
                   returned, canned, first_run>>

\* What a pipeline and its caller hold before run is called
Fresh ==
    /\ attempt = 0
    /\ state = [attempt |-> 0, history |-> <<>>]
    /\ last_state = "None"
    /\ guidance_override = <<>>
    /\ best_outcome = <<>>
    /\ outcome = <<>>
    /\ execution = <<>>
    /\ prompt = <<>>
    /\ llm_calls = [synthesis |-> 0, reflection |-> 0]
    /\ returned = <<>>
    /\ first_run = <<>>
    /\ workers = <<>>
    /\ safe_builtins = SafeBuiltins
    /\ batch = <<>>
    /\ diagnosis = <<>>

\* A pipeline constructed with a configuration, before run is called
Init ==
    /\ config \in [max_iterations : 0..MaxIterations, score_threshold : Thresholds]
    /\ task \in RunTasks
    /\ pc = "NOT_STARTED"
    /\ candidate = <<>>
    /\ canned = <<>>
    /\ Fresh

Next ==
    \/ RunStart
    \/ Attempt
    \/ AttemptAborted
    \/ SynthesisRaises
    \/ Reflect
    \/ ReflectionRaises

Spec == Init /\ [][Next]_vars

----------------------------------------------------------------------------
(* evaluate_candidate applied to one candidate and one task *)

EvaluateOnly ==
    /\ pc = "EVAL_READY"
    /\ ~Escapes(candidate[1].code, task)
    /\ execution' = <<ExecutorRun(candidate[1], task)>>
    /\ outcome' = <<EvaluateCandidate(candidate[1], task)>>
    /\ pc' = "EVAL_DONE"
    /\ UNCHANGED <<diagnosis, batch, workers, safe_builtins, config, task, attempt, state, last_state, guidance_override,
                   best_outcome, candidate, prompt, llm_calls,
                   returned, canned, first_run>>

\* The candidate lets an exception escape: evaluate_candidate raises
EvaluateAborted ==
    /\ pc = "EVAL_READY"
    /\ Escapes(candidate[1].code, task)
    /\ pc' = "EVAL_RAISED"
    /\ UNCHANGED <<diagnosis, batch, workers, safe_builtins, config, task, attempt, state, last_state, guidance_override,
                   best_outcome, candidate, outcome, execution, prompt,
                   llm_calls, returned, canned, first_run>>

InitEval ==
    /\ config = [max_iterations |-> 1,
                 score_threshold |-> [num |-> DefaultThresholdPct, den |-> 100]]
    /\ task \in TasksUpTo(MaxEvalExamples)
    /\ \E code \in ProgramsFor(Len(task.examples))
                     \cup EscapingProgramsFor(Len(task.examples)) :
          candidate = <<CandidateProgram(code, 1, "llm")>>
    /\ pc = "EVAL_READY"
    /\ canned = <<>>
    /\ Fresh

NextEval ==
    \/ EvaluateOnly
    \/ EvaluateAborted

SpecEval == InitEval /\ [][NextEval]_vars

----------------------------------------------------------------------------
(* run called twice on one pipeline with one task object and a backend of
   canned responses *)

InitRerun ==
    /\ config \in [max_iterations : 1..MaxRerunIterations,
                   score_threshold : Thresholds]
    /\ task \in TasksUpTo(MaxRerunExamples)
    /\ \E code \in MutatingProgramsFor(Len(task.examples)) :
          canned = <<ScriptedBackend([text |-> [fenced |-> TRUE, body |-> code],
                                      source |-> "canned"], <<>>)>>
    /\ pc = "NOT_STARTED"
    /\ candidate = <<>>
    /\ Fresh

NextRerun ==
    \/ RunStart
    \/ Attempt
    \/ Reflect
    \/ RunAgain

SpecRerun == InitRerun /\ [][NextRerun]_vars

----------------------------------------------------------------------------
(* run with a backend that gives one canned program to every synthesis
   request and a scripted text to the reflection request after each attempt *)

\* The scripts of a run of k attempts: the text after attempt i is empty,
\* white space, or the advice i
ReflectionScripts(k) ==
    { script \in [1..k -> UNION { ReflectionTexts(i) : i \in 1..k }] :
        \A i \in 1..k : script[i] \in ReflectionTexts(i) }

InitGuidance ==
    /\ config \in [max_iterations : 1..MaxGuidanceIterations,
                   score_threshold : Thresholds]
    /\ task \in TasksUpTo(MaxGuidanceExamples)
    /\ \E code \in ProgramsFor(Len(task.examples)),
          script \in ReflectionScripts(config.max_iterations) :
          /\ canned = <<ScriptedBackend([text |-> [fenced |-> TRUE, body |-> code],
                                        source |-> "canned"], script)>>
    /\ pc = "NOT_STARTED"
    /\ candidate = <<>>
    /\ Fresh

NextGuidanceStep ==
    \/ RunStart
    \/ Attempt
    \/ Reflect

SpecGuidance == InitGuidance /\ [][NextGuidanceStep]_vars

----------------------------------------------------------------------------
(* build_synthesis_prompt applied to the state a run holds when it composes
   the prompt of an attempt: the records of the earlier attempts, none of
   which ended the loop *)

\* The state after the attempts 1..i gave the programs codes[1..i]
RECURSIVE StateAfter(_, _, _)
StateAfter(t, codes, i) ==
    IF i = 0
    THEN [attempt |-> 0, history |-> <<>>]
    ELSE Record(StateAfter(t, codes, i - 1),
                CandidateProgram(codes[i], i, "llm"),
                EvaluateCandidate(CandidateProgram(codes[i], i, "llm"), t))

ComposePrompt ==
    /\ pc = "PROMPT_READY"
    /\ prompt' = <<BuildSynthesisPrompt(task, state, guidance_override)>>
    /\ pc' = "PROMPT_DONE"
    /\ UNCHANGED <<diagnosis, batch, workers, safe_builtins, config, task, attempt, state, last_state, guidance_override,
                   best_outcome, candidate, outcome, execution, llm_calls,
                   returned, canned, first_run>>

InitPrompt ==
    /\ config = [max_iterations |-> MaxPromptHistory + 1,
                 score_threshold |-> [num |-> DefaultThresholdPct, den |-> 100]]
    /\ task \in RunTasks
    /\ \E j \in 0..MaxPromptHistory :
          \E codes \in [1..j -> ProgramsFor(Len(task.examples))] :
              /\ state = StateAfter(task, codes, j)
              /\ attempt = j + 1
    /\ \A i \in DOMAIN state.history : ~state.history[i].passed
    /\ guidance_override \in {<<>>, <<AdviceOf(0)>>}
    /\ pc = "PROMPT_READY"
    /\ last_state = "state"
    /\ best_outcome = <<>>
    /\ candidate = <<>>
    /\ outcome = <<>>
    /\ execution = <<>>
    /\ prompt = <<>>
    /\ llm_calls = [synthesis |-> 0, reflection |-> 0]
    /\ returned = <<>>
    /\ canned = <<>>
    /\ first_run = <<>>
    /\ workers = <<>>
    /\ safe_builtins = SafeBuiltins
    /\ batch = <<>>
    /\ diagnosis = <<>>

NextPrompt == ComposePrompt

SpecPrompt == InitPrompt /\ [][NextPrompt]_vars

----------------------------------------------------------------------------
(* _extract_code on the text of a generation, character by character.  A
   text is a sequence over Chars, one name per class of character: a
   backtick, an alphanumeric, a visible character that is not alphanumeric,
   a blank and a line feed. *)

Chars == {"tick", "alnum", "punct", "space", "newline"}

Alphanumeric == {"alnum"}

Whitespace == {"space", "newline"}

Marker == <<"tick", "tick", "tick">>

TextsUpTo(n) == UNION {[1..k -> Chars] : k \in 0..n}

\* str.strip
RECURSIVE StripText(_)
StripText(s) ==
    IF s = <<>> THEN s
    ELSE IF Head(s) \in Whitespace THEN StripText(Tail(s))
    ELSE IF s[Len(s)] \in Whitespace THEN StripText(SubSeq(s, 1, Len(s) - 1))
    ELSE s

IsMarkerAt(text, p) ==
    /\ p + 2 <= Len(text)
    /\ SubSeq(text, p, p + 2) = Marker

\* [a-zA-Z0-9]* from p: the position after the longest run of alphanumerics
RECURSIVE TagEnd(_, _)
TagEnd(text, p) ==
    IF p <= Len(text) /\ text[p] \in Alphanumeric
    THEN TagEnd(text, p + 1)
    ELSE p

\* The lazy group and the closing marker from p: the position of the first marker at or after p, 0 if none
RECURSIVE FirstMarkerFrom(_, _)
FirstMarkerFrom(text, p) ==
    IF p + 2 > Len(text) THEN 0
    ELSE IF IsMarkerAt(text, p) THEN p
    ELSE FirstMarkerFrom(text, p + 1)

\* The fence pattern tried at position p: <<group 1>> on a match, <<>> if none
FenceMatchAt(text, p) ==
    IF ~IsMarkerAt(text, p) THEN <<>>
    ELSE LET q == TagEnd(text, p + 3)
         IN  IF q > Len(text) \/ text[q] /= "newline" THEN <<>>
             ELSE LET c == FirstMarkerFrom(text, q + 1)
                  IN  IF c = 0 THEN <<>> ELSE <<SubSeq(text, q + 1, c - 1)>>

\* fence.search(text): the match at the leftmost position that has one
RECURSIVE FenceSearch(_, _)
FenceSearch(text, p) ==
    IF p > Len(text) THEN <<>>
    ELSE IF FenceMatchAt(text, p) /= <<>> THEN FenceMatchAt(text, p)
    ELSE FenceSearch(text, p + 1)

\* SynthesisPipeline._extract_code
ExtractCodeOf(text) ==
    LET match == FenceSearch(text, 1)
    IN  IF match /= <<>> THEN StripText(match[1]) ELSE StripText(text)

\* Language tags a reply may put after the opening marker
Tags == UNION {[1..k -> {"alnum", "punct"}] : k \in 0..MaxTagLen}

\* A reply that wraps source in one fenced block, each marker on a line of
\* its own, with or without prose around
FencedText(before, tag, source, after) ==
    before \o Marker \o tag \o <<"newline">> \o source
           \o <<"newline">> \o Marker \o after

\* The generations of a backend: a source as it is, or in one fenced block
Generations ==
    {[fenced |-> FALSE, tag |-> <<>>, source |-> s, text |-> s] :
        s \in TextsUpTo(MaxSourceLen)}
    \cup
    {[fenced |-> TRUE, tag |-> g, source |-> s,
      text |-> FencedText(b, g, s, a)] :
        g \in Tags, s \in TextsUpTo(MaxSourceLen),
        b \in {<<>>, <<"alnum", "newline">>}, a \in {<<>>, <<"newline", "alnum">>}}

ExtractStep ==
    /\ pc = "GENERATED"
    /\ candidate' = <<ExtractCodeOf(canned.text)>>
    /\ pc' = "EXTRACTED"
    /\ UNCHANGED <<diagnosis, batch, workers, safe_builtins, config, task, attempt, state, last_state, guidance_override,
                   best_outcome, outcome, execution, prompt, llm_calls,
                   returned, canned, first_run>>

InitExtract ==
    /\ config = [max_iterations |-> 1,
                 score_threshold |-> [num |-> DefaultThresholdPct, den |-> 100]]
    /\ task \in TasksUpTo(0)
    /\ canned \in Generations
    /\ pc = "GENERATED"
    /\ attempt = 1
    /\ state = [attempt |-> 0, history |-> <<>>]
    /\ last_state = "state"
    /\ guidance_override = <<>>
    /\ best_outcome = <<>>
    /\ candidate = <<>>
    /\ outcome = <<>>
    /\ execution = <<>>
    /\ prompt = <<>>
    /\ llm_calls = [synthesis |-> 1, reflection |-> 0]
    /\ returned = <<>>
    /\ first_run = <<>>
    /\ workers = <<>>
    /\ safe_builtins = SafeBuiltins
    /\ batch = <<>>
    /\ diagnosis = <<>>

NextExtract == ExtractStep

SpecExtract == InitExtract /\ [][NextExtract]_vars

----------------------------------------------------------------------------
(* Runs of different tasks on concurrent workers.  Each worker has a
   pipeline, a backend and an executor of its own, all pipelines with the
   same configuration; the only object the workers share is the module's
   table _SAFE_BUILTINS.  A worker's steps interleave with the steps of the
   others between the construction of a namespace and the calls of the
   entry point. *)

Workers == {"w1", "w2"}

\* The task of each worker: MaxWorkerExamples examples, and an expected
\* value that tells the two tasks apart
WorkerTask(w) ==
    [entry_point |-> "solve",
     examples |-> [i \in 1..MaxWorkerExamples |->
                     [args |-> i,
                      expected |-> IF w = "w1" THEN "v0" ELSE "v1"]]]

\* The programs a worker's backend may be scripted with: a program and
\* whether its top level rebinds a name in the __builtins__ of its namespace
WorkerPrograms(n) ==
    { [code |-> c, rebinds |-> b] :
        c \in ProgramsFor(n),
        b \in BOOLEAN }

\* A namespace that uses the module's table itself
BuildNamespaceShared(table) == [shared |-> TRUE, builtins |-> table]

\* _build_namespace: {"__builtins__": _SAFE_BUILTINS.copy()}
BuildNamespace(table) == [shared |-> FALSE, builtins |-> table]

\* The table a namespace resolves built-in names in
VisibleBuiltins(ns, table) == IF ns.shared THEN table ELSE ns.builtins

\* exec(code, compiled_globals, compiled_locals) of a program that rebinds
\* the allowed names: the table its namespace resolves names in holds the
\* new bindings
Rebound(w) == [name \in SafeNames |-> w]

\* What a program does in the namespace of worker w: as written while every
\* allowed name is the built-in or its own binding, and every call raises
\* when a name holds the binding of another program
CodeUnder(code, w, table) ==
    IF \A name \in SafeNames : table[name] \in {"builtin", w}
    THEN code
    ELSE [code EXCEPT !.result = [i \in DOMAIN code.result |-> Raises]]

\* run is called on the pipeline of worker w
WorkerStart(w) ==
    /\ workers[w].pc = "NOT_STARTED"
    /\ 1 \in AttemptRange
    /\ workers' = [workers EXCEPT
                     ![w].pc = "GENERATE",
                     ![w].attempt = 1,
                     ![w].state = [attempt |-> 0, history |-> <<>>],
                     ![w].guidance_override = <<>>,
                     ![w].best_outcome = <<>>]
    /\ UNCHANGED <<diagnosis, batch, config, task, pc, attempt, state, last_state,
                   guidance_override, best_outcome, candidate, outcome,
                   execution, prompt, llm_calls, returned, canned, first_run,
                   safe_builtins>>

\* The worker's backend answers the synthesis prompt and the executor builds
\* the namespace and executes the candidate's source in it
WorkerLoad(w) ==
    /\ workers[w].pc = "GENERATE"
    /\ LET ns == BuildNamespace(safe_builtins)
           rebinds == workers[w].program.rebinds
                         /\ workers[w].program.code.load = "ok"
       IN  /\ workers' = [workers EXCEPT
                            ![w].pc = "LOADED",
                            ![w].namespace =
                                IF rebinds /\ ~ns.shared
                                THEN <<[ns EXCEPT !.builtins = Rebound(w)]>>
                                ELSE <<ns>>]
           /\ safe_builtins' = IF rebinds /\ ns.shared
                               THEN Rebound(w)
                               ELSE safe_builtins
    /\ UNCHANGED <<diagnosis, batch, config, task, pc, attempt, state, last_state,
                   guidance_override, best_outcome, candidate, outcome,
                   execution, prompt, llm_calls, returned, canned, first_run>>

\* The executor calls the entry point on the examples, the outcome is
\* recorded, the best outcome updated and the termination check made
WorkerExecute(w) ==
    /\ workers[w].pc = "LOADED"
    /\ LET me == workers[w]
           table == VisibleBuiltins(me.namespace[1], safe_builtins)
           cand == CandidateProgram(me.program.code, me.attempt, "canned")
           ran == CandidateProgram(CodeUnder(me.program.code, w, table),
                                   me.attempt, "canned")
           out == EvaluateCandidate(ran, me.task)
           best == <<SelectBest(me.best_outcome, out)>>
       IN  workers' = [workers EXCEPT
                         ![w].state = Record(me.state, cand, out),
                         ![w].best_outcome = best,
                         ![w].namespace = <<>>,
                         ![w].pc = IF ShouldStop(out) THEN "PASSED"
                                   ELSE "REFLECT",
                         ![w].returned = IF ShouldStop(out) THEN best
                                         ELSE me.returned]
    /\ UNCHANGED <<diagnosis, batch, config, task, pc, attempt, state, last_state,
                   guidance_override, best_outcome, candidate, outcome,
                   execution, prompt, llm_calls, returned, canned, first_run,
                   safe_builtins>>

\* The worker's backend answers the reflection prompt, then the loop header
WorkerReflect(w) ==
    /\ workers[w].pc = "REFLECT"
    /\ LET me == workers[w]
           guidance == NextGuidance([pad |-> FALSE, body |-> AdviceOf(0)],
                                    me.guidance_override)
       IN  workers' = [workers EXCEPT
                         ![w].guidance_override = guidance,
                         ![w].attempt = IF me.attempt + 1 \in AttemptRange
                                        THEN me.attempt + 1 ELSE me.attempt,
                         ![w].pc = IF me.attempt + 1 \in AttemptRange
                                   THEN "GENERATE" ELSE "EXHAUSTED",
                         ![w].returned = IF me.attempt + 1 \in AttemptRange
                                         THEN me.returned
                                         ELSE me.best_outcome]
    /\ UNCHANGED <<diagnosis, batch, config, task, pc, attempt, state, last_state,
                   guidance_override, best_outcome, candidate, outcome,
                   execution, prompt, llm_calls, returned, canned, first_run,
                   safe_builtins>>

\* A worker before run is called on its pipeline
WorkerBefore(t, program) ==
    [pc |-> "NOT_STARTED", task |-> t, program |-> program, attempt |-> 0,
     state |-> [attempt |-> 0, history |-> <<>>], guidance_override |-> <<>>,
     best_outcome |-> <<>>, namespace |-> <<>>, returned |-> <<>>]

InitWorkers ==
    /\ config \in [max_iterations : 1..MaxWorkerIterations,
                   score_threshold : {[num |-> DefaultThresholdPct, den |-> 100]}]
    /\ task \in TasksUpTo(0)
    /\ pc = "WORKERS"
    /\ candidate = <<>>
    /\ canned = <<>>
    /\ attempt = 0
    /\ state = [attempt |-> 0, history |-> <<>>]
    /\ last_state = "None"
    /\ guidance_override = <<>>
    /\ best_outcome = <<>>
    /\ outcome = <<>>
    /\ execution = <<>>
    /\ prompt = <<>>
    /\ llm_calls = [synthesis |-> 0, reflection |-> 0]
    /\ returned = <<>>
    /\ first_run = <<>>
    /\ safe_builtins = SafeBuiltins
    /\ batch = <<>>
    /\ diagnosis = <<>>
    /\ \E programs \in [Workers -> WorkerPrograms(MaxWorkerExamples)] :
          workers = [w \in Workers |-> WorkerBefore(WorkerTask(w), programs[w])]

NextWorkers ==
    \E w \in Workers :
        \/ WorkerStart(w)
        \/ WorkerLoad(w)
        \/ WorkerExecute(w)
        \/ WorkerReflect(w)

SpecWorkers == InitWorkers /\ [][NextWorkers]_vars

----------------------------------------------------------------------------
(* The batch driver (examples/evaluate_arc_dataset.py): main makes one
   pipeline and, for each task of the challenge file in order, builds the
   task specification, runs it and keeps a result record; then it summarises
   the records and prints the summary. *)

\* A challenge entry: the number of its train pairs, and whether it has a
\* test pair, with or without a solution in the solutions file
Payloads ==
    [train : 0..MaxBatchTrain, test : {"none", "unsolved", "solved"}]

\* build_examples: every train pair, and the test pairs that have a solution
BuildExamples(payload) ==
    LET n == payload.train + (IF payload.test = "solved" THEN 1 ELSE 0)
    IN  [i \in 1..n |-> [args |-> i,
                         expected |-> IF i % 2 = 1 THEN "v0" ELSE "v1"]]

\* A driver that builds a specification for every challenge entry
MakeTaskSpecAlways(payload) ==
    <<[entry_point |-> "solve", examples |-> BuildExamples(payload)]>>

\* make_task_spec: None (<<>>) when there is no example
MakeTaskSpec(payload) ==
    IF BuildExamples(payload) = <<>>
    THEN <<>>
    ELSE <<[entry_point |-> "solve", examples |-> BuildExamples(payload)]>>

\* The programs the backend may give during one run of the batch: one that
\* does not load and those that return the same value on every example
BatchPrograms(n) ==
    { Program("error", "absent", <<>>, {}, Raises) }
    \cup { Program("ok", "callable", [i \in 1..n |-> v], {}, Raises) :
              v \in Values }

\* A run that goes on with the state the pipeline holds from the run before
RunInitialStateKept(previous) ==
    IF previous = <<>>
    THEN [attempt |-> 0, history |-> <<>>]
    ELSE previous[1]

\* state = SynthesisState(task); self._last_state = state
RunInitialState(previous) == [attempt |-> 0, history |-> <<>>]

\* The loop of run from attempt i on, with a backend that gives the program
\* code on every synthesis request: the state it leaves and the outcome it
\* returns
RECURSIVE RunAlone(_, _, _, _, _)
RunAlone(t, code, st, best, i) ==
    LET cand == CandidateProgram(code, i, "canned")
        out  == EvaluateCandidate(cand, t)
        st2  == Record(st, cand, out)
        bst  == <<SelectBest(best, out)>>
    IN  IF ShouldStop(out) \/ i + 1 \notin AttemptRange
        THEN [history |-> st2.history, returned |-> bst]
        ELSE RunAlone(t, code, st2, bst, i + 1)

\* SynthesisPipeline.summarize(): one line per record of the last state
PipelineSummary(last) ==
    IF last = <<>>
    THEN <<"<no synthesis has been run>">>
    ELSE [i \in DOMAIN last[1].history |->
            [attempt |-> last[1].history[i].attempt,
             passed |-> last[1].history[i].passed,
             score |-> last[1].history[i].score]]

\* run_task: the TaskResult of a run that returned
TaskResult(id, out, last, duration) ==
    [task_id |-> id, passed |-> out.passed, score |-> out.score,
     attempts |-> IF last = <<>> THEN 0 ELSE Len(last[1].history),
     duration_sec |-> duration, feedback |-> out.feedback]

\* Sum and mean of fractions, and of whole numbers
RECURSIVE SumScores(_)
SumScores(scores) ==
    IF scores = <<>>
    THEN [num |-> 0, den |-> 1]
    ELSE LET rest == SumScores(Tail(scores))
         IN  [num |-> Head(scores).num * rest.den + rest.num * Head(scores).den,
              den |-> Head(scores).den * rest.den]

RECURSIVE SumOf(_)
SumOf(numbers) ==
    IF numbers = <<>> THEN 0 ELSE Head(numbers) + SumOf(Tail(numbers))

MeanScore(scores) ==
    [num |-> SumScores(scores).num, den |-> SumScores(scores).den * Len(scores)]

\* sorted(scores)
SortedScores(scores) ==
    CHOOSE sorted \in [DOMAIN scores -> {scores[i] : i \in DOMAIN scores}] :
        /\ \A i \in DOMAIN sorted : \A j \in DOMAIN sorted :
              i <= j => ScoreGE(sorted[j], sorted[i])
        /\ \A x \in {scores[i] : i \in DOMAIN scores} :
              Cardinality({i \in DOMAIN scores : scores[i] = x})
                 = Cardinality({i \in DOMAIN sorted : sorted[i] = x})

\* statistics.median: the middle score, or the mean of the two middle scores
MedianScore(scores) ==
    LET sorted == SortedScores(scores)
        n == Len(scores)
    IN  IF n % 2 = 1
        THEN sorted[(n + 1) \div 2]
        ELSE MeanScore(<<sorted[n \div 2], sorted[n \div 2 + 1]>>)

\* A summary with the six fields for every list of results
SummarizeFull(results) ==
    LET passed == Cardinality({i \in DOMAIN results : results[i].passed})
        scores == [i \in DOMAIN results |-> results[i].score]
    IN  [total |-> Len(results),
         passed |-> passed,
         pass_rate |-> [num |-> passed, den |-> Max(Len(results), 1)],
         mean_score |-> IF results = <<>> THEN [num |-> 0, den |-> 1]
                        ELSE MeanScore(scores),
         median_score |-> IF results = <<>> THEN [num |-> 0, den |-> 1]
                          ELSE MedianScore(scores),
         total_runtime_sec |->
             SumOf([i \in DOMAIN results |-> results[i].duration_sec])]

\* summarize of the batch driver
Summarize(results) ==
    IF results = <<>>
    THEN [total |-> 0, passed |-> 0, pass_rate |-> [num |-> 0, den |-> 1],
          mean_score |-> [num |-> 0, den |-> 1]]
    ELSE SummarizeFull(results)

\* The keys of the summary that main reads when it prints it
PrintedFields ==
    {"total", "passed", "pass_rate", "mean_score", "median_score",
     "total_runtime_sec"}

BatchFrame ==
    UNCHANGED <<diagnosis, config, task, pc, attempt, state, last_state,
                guidance_override, best_outcome, candidate, outcome,
                execution, prompt, llm_calls, returned, canned, first_run,
                workers, safe_builtins>>

\* The next challenge entry has no example: it is skipped
BatchSkip ==
    /\ batch.pc = "LOOP"
    /\ batch.index < Len(batch.payloads)
    /\ MakeTaskSpec(batch.payloads[batch.index + 1]) = <<>>
    /\ batch' = [batch EXCEPT !.index = @ + 1]
    /\ BatchFrame

\* run_task on the next challenge entry returns: its result is kept
BatchRun ==
    /\ batch.pc = "LOOP"
    /\ batch.index < Len(batch.payloads)
    /\ MakeTaskSpec(batch.payloads[batch.index + 1]) /= <<>>
    /\ LET spec == MakeTaskSpec(batch.payloads[batch.index + 1])[1]
       IN  \E code \in BatchPrograms(Len(spec.examples)) :
             LET first == RunInitialState(batch.last_state)
                 ran == RunAlone(spec, code, first, <<>>, 1)
                 last == <<[attempt |-> Len(ran.history),
                            history |-> ran.history]>>
             IN  batch' = [batch EXCEPT
                             !.index = @ + 1,
                             !.run_calls = Append(@, spec),
                             !.codes = Append(@, [id |-> batch.index + 1, code |-> <<code>>]),
                             !.last_state = last,
                             !.results = Append(@,
                                 TaskResult(batch.index + 1, ran.returned[1],
                                            last, Len(ran.history)))]
    /\ BatchFrame

\* An exception of run_task that ends the loop over the entries
BatchRunRaisesStops ==
    /\ batch.pc = "LOOP"
    /\ batch.index < Len(batch.payloads)
    /\ MakeTaskSpec(batch.payloads[batch.index + 1]) /= <<>>
    /\ LET spec == MakeTaskSpec(batch.payloads[batch.index + 1])[1]
       IN  batch' = [batch EXCEPT
                       !.pc = "SUMMARY",
                       !.summary = <<Summarize(batch.results)>>,
                       !.run_calls = Append(@, spec),
                       !.codes = Append(@, [id |-> batch.index + 1, code |-> <<>>]),
                       !.last_state = <<RunInitialState(batch.last_state)>>]
    /\ BatchFrame

\* run_task on the next challenge entry raises an Exception (the backend
\* failed on the first request): main reports it and goes on
BatchRunRaises ==
    /\ batch.pc = "LOOP"
    /\ batch.index < Len(batch.payloads)
    /\ MakeTaskSpec(batch.payloads[batch.index + 1]) /= <<>>
    /\ LET spec == MakeTaskSpec(batch.payloads[batch.index + 1])[1]
       IN  batch' = [batch EXCEPT
                       !.index = @ + 1,
                       !.run_calls = Append(@, spec),
                       !.codes = Append(@, [id |-> batch.index + 1, code |-> <<>>]),
                       !.last_state = <<RunInitialState(batch.last_state)>>]
    /\ BatchFrame

\* After the loop: summary = summarize(results)
BatchSummarize ==
    /\ batch.pc = "LOOP"
    /\ batch.index = Len(batch.payloads)
    /\ batch' = [batch EXCEPT !.pc = "SUMMARY",
                              !.summary = <<Summarize(batch.results)>>]
    /\ BatchFrame

\* main prints the summary: a key that is missing raises KeyError
BatchPrint ==
    /\ batch.pc = "SUMMARY"
    /\ batch' = [batch EXCEPT
                   !.pc = IF PrintedFields \subseteq DOMAIN batch.summary[1]
                          THEN "DONE" ELSE "KEY_ERROR"]
    /\ BatchFrame

InitBatch ==
    /\ config = [max_iterations |-> MaxBatchIterations,
                 score_threshold |-> [num |-> DefaultThresholdPct, den |-> 100]]
    /\ task \in TasksUpTo(0)
    /\ pc = "BATCH"
    /\ candidate = <<>>
    /\ canned = <<>>
    /\ attempt = 0
    /\ state = [attempt |-> 0, history |-> <<>>]
    /\ last_state = "None"
    /\ guidance_override = <<>>
    /\ best_outcome = <<>>
    /\ outcome = <<>>
    /\ execution = <<>>
    /\ prompt = <<>>
    /\ llm_calls = [synthesis |-> 0, reflection |-> 0]
    /\ returned = <<>>
    /\ first_run = <<>>
    /\ workers = <<>>
    /\ safe_builtins = SafeBuiltins
    /\ diagnosis = <<>>
    /\ \E n \in 0..MaxBatchTasks :
          \E payloads \in [1..n -> Payloads] :
              batch = [pc |-> "LOOP", payloads |-> payloads, index |-> 0,
                       run_calls |-> <<>>, codes |-> <<>>, results |-> <<>>,
                       last_state |-> <<>>, summary |-> <<>>]

NextBatch ==
    \/ BatchSkip
    \/ BatchRun
    \/ BatchRunRaises
    \/ BatchSummarize
    \/ BatchPrint

SpecBatch == InitBatch /\ [][NextBatch]_vars

----------------------------------------------------------------------------
(* The mismatch line of the executor and parse_feedback of the diagnostic
   tool (examples/visualize_arc_failures.py), piece by piece.  A text is a
   sequence of pieces; the pieces " expected ", " got " and " kwargs=" are
   the substrings the parser splits at, wherever they stand. *)

Separators == {" expected ", " got ", " kwargs="}

\* What the text of a string value is made of
Words == {"x", ":"} \cup Separators

\* Example values: whole numbers, strings of words, and the float nan, whose
\* repr is no literal
IntValue(n) == [kind |-> "int", v |-> <<n>>]
StrValue(words) == [kind |-> "str", v |-> words]
NanValue == [kind |-> "nan", v |-> <<>>]

StrValuesUpTo(n) == {StrValue(ws) : ws \in UNION {[1..k -> Words] : k \in 0..n}}

ParseValues ==
    {IntValue("1"), IntValue("2"), NanValue} \cup StrValuesUpTo(MaxWords)

\* repr of a value
Repr(val) ==
    CASE val.kind = "int" -> val.v
      [] val.kind = "str" -> <<"'">> \o val.v \o <<"'">>
      [] val.kind = "nan" -> <<"nan">>

\* repr of example.args, a tuple of one value
ReprArgs(a) == <<"(">> \o Repr(a) \o <<",)">>

\* repr of example.kwargs: no keyword (<<>>) or one keyword k (<<val>>)
ReprKwargs(k) ==
    IF k = <<>> THEN <<"{}">> ELSE <<"{'k': ">> \o Repr(k[1]) \o <<"}">>

\* A mismatch line without the keyword arguments
MismatchLineNoKwargs(a, k, e, g) ==
    <<"Mismatch for input args=">> \o ReprArgs(a)
        \o <<":", " expected ">> \o Repr(e) \o <<" got ">> \o Repr(g)

\* python_executor.py:80-85
MismatchLine(a, k, e, g) ==
    <<"Mismatch for input args=">> \o ReprArgs(a)
        \o <<" kwargs=">> \o ReprKwargs(k)
        \o <<":", " expected ">> \o Repr(e) \o <<" got ">> \o Repr(g)

\* result != example.expected
Differs(g, e) == g.kind = "nan" \/ g /= e

\* str.split(sep, 1): <<before, after>> at the first sep, <<text>> if none
RECURSIVE SplitFrom(_, _, _)
SplitFrom(text, sep, p) ==
    IF p > Len(text) THEN <<text>>
    ELSE IF text[p] = sep
         THEN <<SubSeq(text, 1, p - 1), SubSeq(text, p + 1, Len(text))>>
         ELSE SplitFrom(text, sep, p + 1)

SplitOnce(text, sep) == SplitFrom(text, sep, 1)

\* str.rstrip(":")
RECURSIVE RStripColon(_)
RStripColon(text) ==
    IF text /= <<>> /\ text[Len(text)] = ":"
    THEN RStripColon(SubSeq(text, 1, Len(text) - 1))
    ELSE text

\* ast.literal_eval of the repr of a value: <<value>>, or <<>> when it raises
LiteralEval(text) ==
    IF text \in {<<"1">>, <<"2">>}
    THEN <<IntValue(text[1])>>
    ELSE IF /\ Len(text) >= 2
            /\ text[1] = "'" /\ text[Len(text)] = "'"
            /\ \A i \in 2..(Len(text) - 1) : text[i] \in Words
         THEN <<StrValue(SubSeq(text, 2, Len(text) - 1))>>
         ELSE <<>>

LiteralEvalArgs(text) ==
    IF Len(text) >= 2 /\ text[1] = "(" /\ text[Len(text)] = ",)"
    THEN LiteralEval(SubSeq(text, 2, Len(text) - 1))
    ELSE <<>>

\* <<kwargs>> or <<>> when it raises
LiteralEvalKwargs(text) ==
    IF text = <<"{}">>
    THEN << <<>> >>
    ELSE IF /\ Len(text) >= 2
            /\ text[1] = "{'k': " /\ text[Len(text)] = "}"
            /\ LiteralEval(SubSeq(text, 2, Len(text) - 1)) /= <<>>
         THEN <<LiteralEval(SubSeq(text, 2, Len(text) - 1))>>
         ELSE <<>>

MessageIssue(line) == [kind |-> "message", line |-> line]

\* The body of the loop of parse_feedback on a line that starts with
\* "Mismatch for input args="
ParseMismatch(line) ==
    LET halves == SplitOnce(line, " expected ")
    IN  IF Len(halves) < 2 THEN MessageIssue(line)
        ELSE LET values == SplitOnce(halves[2], " got ")
             IN  IF Len(values) < 2 THEN MessageIssue(line)
                 ELSE LET parts == SplitOnce(Tail(halves[1]), " kwargs=")
                      IN  IF Len(parts) < 2 THEN MessageIssue(line)
                          ELSE LET args == LiteralEvalArgs(parts[1])
                                   kwargs == LiteralEvalKwargs(RStripColon(parts[2]))
                                   expected == LiteralEval(values[1])
                                   got == LiteralEval(values[2])
                               IN  IF <<>> \in {args, kwargs, expected, got}
                                   THEN MessageIssue(line)
                                   ELSE [kind |-> "mismatch",
                                         args |-> args[1],
                                         kwargs |-> kwargs[1],
                                         expected |-> expected[1],
                                         got |-> got[1]]

\* parse_feedback on the lines of a feedback
RECURSIVE ParseFeedback(_)
ParseFeedback(lines) ==
    IF lines = <<>> THEN <<>>
    ELSE LET line == Head(lines)
             rest == ParseFeedback(Tail(lines))
         IN  IF line = <<>> \/ line = <<"Failures detected:">>
             THEN rest
             ELSE IF line[1] /= "Mismatch for input args="
                  THEN <<MessageIssue(line)>> \o rest
                  ELSE <<ParseMismatch(line)>> \o rest

DiagnosisFrame ==
    UNCHANGED <<config, task, pc, attempt, state, last_state,
                guidance_override, best_outcome, candidate, outcome,
                execution, prompt, llm_calls, returned, canned, first_run,
                workers, safe_builtins, batch>>

\* The executor reports the mismatch and the evaluator puts the line under
\* the header of the feedback
EmitMismatch ==
    /\ diagnosis.pc = "CALLED"
    /\ diagnosis' = [diagnosis EXCEPT
                       !.pc = "EMITTED",
                       !.feedback = << <<"Failures detected:">>,
                                       MismatchLine(diagnosis.args,
                                                    diagnosis.kwargs,
                                                    diagnosis.expected,
                                                    diagnosis.got) >>]
    /\ DiagnosisFrame

\* The diagnostic tool parses the feedback
ParseStep ==
    /\ diagnosis.pc = "EMITTED"
    /\ diagnosis' = [diagnosis EXCEPT
                       !.pc = "PARSED",
                       !.issues = ParseFeedback(diagnosis.feedback)]
    /\ DiagnosisFrame

InitDiagnosis ==
    /\ config = [max_iterations |-> 1,
                 score_threshold |-> [num |-> DefaultThresholdPct, den |-> 100]]
    /\ task \in TasksUpTo(0)
    /\ pc = "DIAGNOSIS"
    /\ candidate = <<>>
    /\ canned = <<>>
    /\ attempt = 0
    /\ state = [attempt |-> 0, history |-> <<>>]
    /\ last_state = "None"
    /\ guidance_override = <<>>
    /\ best_outcome = <<>>
    /\ outcome = <<>>
    /\ execution = <<>>
    /\ prompt = <<>>
    /\ llm_calls = [synthesis |-> 0, reflection |-> 0]
    /\ returned = <<>>
    /\ first_run = <<>>
    /\ workers = <<>>
    /\ safe_builtins = SafeBuiltins
    /\ batch = <<>>
    /\ \E a \in ParseValues, e \in ParseValues :
          \E g \in {IntValue("1"), IntValue("2"), NanValue} \cup StrValuesUpTo(1) :
              \E k \in {<<>>, <<StrValue(<<" expected ">>)>>, <<StrValue(<<":">>)>>} :
                  /\ Differs(g, e)
                  /\ diagnosis = [pc |-> "CALLED", args |-> a, kwargs |-> k,
                                  expected |-> e, got |-> g,
                                  feedback |-> <<>>, issues |-> <<>>]

NextDiagnosis ==
    \/ EmitMismatch
    \/ ParseStep

SpecDiagnosis == InitDiagnosis /\ [][NextDiagnosis]_vars

----------------------------------------------------------------------------
(* run with a valid configuration (max_iterations a positive integer) when
   every backend call and every execution of a candidate returns.  run is
   sequential and each of its calls blocks until it returns, so a step that
   can be taken is taken: weak fairness of the steps. *)

InitReturning ==
    /\ Init
    /\ config.max_iterations \in 1..MaxLiveIterations
    /\ Len(task.examples) <= MaxLiveExamples

NextReturning ==
    \/ RunStart
    \/ Attempt
    \/ Reflect

SpecReturning ==
    InitReturning /\ [][NextReturning]_vars /\ WF_vars(NextReturning)

----------------------------------------------------------------------------
(* run with up to MaxEarlyIterations attempts allowed on tasks of one or two
   examples, any backend: runs that stop with attempts to spare after one or
   more failing attempts *)

\* The sizes of the tasks: with two examples a candidate that fails one of
\* them scores 1/2, so that a threshold is reached without a pass
EarlyExampleCounts == {1, 2}

InitEarly ==
    /\ config \in [max_iterations : 1..MaxEarlyIterations,
                   score_threshold : Thresholds]
    /\ task \in {[entry_point |-> "solve",
                  examples |-> [i \in 1..n |->
                                  [args |-> i,
                                   expected |-> IF i % 2 = 1 THEN "v0"
                                                ELSE "v1"]]] :
                    n \in EarlyExampleCounts}
    /\ pc = "NOT_STARTED"
    /\ candidate = <<>>
    /\ canned = <<>>
    /\ Fresh

NextEarly ==
    \/ RunStart
    \/ Attempt
    \/ AttemptAborted
    \/ SynthesisRaises
    \/ Reflect
    \/ ReflectionRaises

SpecEarly == InitEarly /\ [][NextEarly]_vars

----------------------------------------------------------------------------
(* run with the default threshold on tasks of up to MaxThresholdExamples
   examples, with a backend that gives one canned program to every request:
   the score of a candidate by the number of examples it fails *)

\* The task of n examples
ThresholdTask(n) ==
    [entry_point |-> "solve",
     examples |-> [i \in 1..n |->
                     [args |-> i,
                      expected |-> IF i % 2 = 1 THEN "v0" ELSE "v1"]]]

\* What a call does in place of returning the expected value
WrongResult(expected, kind) ==
    IF kind = "raise"
    THEN Raises
    ELSE IF expected = "v0" THEN "v1" ELSE "v0"

\* The programs for the task of n examples: the one that fails to load
\* (n failure entries), the ones that do not bind the entry point to a
\* callable (one failure entry, the highest score of a failing attempt) and,
\* for the tasks of up to MaxThresholdCalled examples, the ones that fail
\* the first k examples, by raising or by a wrong value
ThresholdPrograms(n) ==
    { Program("error", "absent", <<>>, {}, Raises),
      Program("ok", "absent", [i \in 1..n |-> Raises], {}, Raises),
      Program("ok", "value", [i \in 1..n |-> Raises], {}, Raises) }
    \cup { Program("ok", "callable",
                   [i \in 1..n |->
                      IF i <= k
                      THEN WrongResult(ThresholdTask(n).examples[i].expected,
                                       kind)
                      ELSE ThresholdTask(n).examples[i].expected],
                   {}, Raises) :
              k \in IF n <= MaxThresholdCalled THEN 0..n ELSE {},
              kind \in {"raise", "wrong"} }

InitThreshold ==
    /\ config = [max_iterations |-> MaxIterations,
                 score_threshold |-> [num |-> DefaultThresholdPct,
                                      den |-> 100]]
    /\ \E n \in 1..MaxThresholdExamples :
          /\ task = ThresholdTask(n)
          /\ \E code \in ThresholdPrograms(n) :
                canned = <<ScriptedBackend([text |-> [fenced |-> TRUE,
                                                      body |-> code],
                                            source |-> "canned"], <<>>)>>
    /\ pc = "NOT_STARTED"
    /\ candidate = <<>>
    /\ Fresh

NextThreshold ==
    \/ RunStart
    \/ Attempt
    \/ Reflect

SpecThreshold == InitThreshold /\ [][NextThreshold]_vars

----------------------------------------------------------------------------
(* Properties of run, checked under Spec *)

History == state.history
Terminal == pc \in {"PASSED", "EXHAUSTED"}
One == [num |-> 1, den |-> 1]

\* A history record that ends the loop: it passed or reached the threshold
StopsRecord(r) == r.passed \/ ScoreGE(r.score, config.score_threshold)

\* C1: with max_iterations = k >= 1, one run requests at most k synthesis
\* generations and its history never holds more than k records.
C1_AtMostKAttempts ==
    config.max_iterations >= 1 =>
        /\ llm_calls.synthesis <= config.max_iterations
        /\ Len(History) <= config.max_iterations
        /\ Len(History) <= llm_calls.synthesis

C1_Witness ==
    /\ pc = "EXHAUSTED"
    /\ config.max_iterations > 1
    /\ Len(History) = config.max_iterations
    /\ llm_calls.synthesis = config.max_iterations

\* C2: a passing attempt is the first passing one and the last one recorded:
\* the run made exactly that many attempts (at most k), it ended, and the
\* returned outcome passed with score 1.0; a pass on attempt 1 leaves a
\* history of one entry.
C2_StopsAtFirstPass ==
    \A i \in DOMAIN History :
        History[i].passed =>
            /\ i = Len(History)
            /\ i <= config.max_iterations
            /\ llm_calls.synthesis = i
            /\ pc = "PASSED"
            /\ returned /= <<>>
            /\ returned[1].passed
            /\ ScoreEQ(returned[1].score, One)

C2_Witness ==
    /\ pc = "PASSED"
    /\ config.max_iterations > 1
    /\ Len(History) = 1
    /\ History[1].passed
    /\ returned[1].passed

\* C3: whenever run has returned, the score of the returned outcome is the
\* maximum score over the attempts recorded in the history, also when every
\* attempt failed.
C3_ReturnsBestScore ==
    returned /= <<>> =>
        /\ \A i \in DOMAIN History : ScoreGE(returned[1].score, History[i].score)
        /\ \E i \in DOMAIN History : ScoreEQ(returned[1].score, History[i].score)

\* Every attempt failed and the last attempt scored below an earlier one.
C3_Witness ==
    /\ pc = "EXHAUSTED"
    /\ Len(History) > 1
    /\ \A i \in DOMAIN History : ~History[i].passed
    /\ ScoreGT(History[1].score, History[Len(History)].score)
    /\ ScoreEQ(returned[1].score, History[1].score)

\* The lowest-numbered attempt of the history that achieved the maximum score
FirstBest ==
    CHOOSE i \in DOMAIN History :
        /\ \A j \in DOMAIN History : ScoreGE(History[i].score, History[j].score)
        /\ \A j \in 1..(i - 1) : ScoreGT(History[i].score, History[j].score)

\* C4: the best outcome is that of the lowest-numbered attempt that achieved
\* the maximum score (a tie keeps the earlier outcome), it is what run
\* returns, and it is replaced only by an outcome of strictly greater score.
C4_FirstFoundWins ==
    /\ [](/\ (best_outcome = <<>>) <=> (History = <<>>)
          /\ History /= <<>> =>
                /\ best_outcome[1].passed = History[FirstBest].passed
                /\ best_outcome[1].score = History[FirstBest].score
                /\ best_outcome[1].feedback = History[FirstBest].feedback
          /\ returned /= <<>> => returned = best_outcome)
    /\ [][(best_outcome /= <<>> /\ best_outcome' /= best_outcome) =>
              ScoreGT(best_outcome'[1].score, best_outcome[1].score)]_vars

\* Two attempts tied on the score with different feedback; the first is returned.
C4_Witness ==
    /\ pc = "EXHAUSTED"
    /\ Len(History) = 2
    /\ ScoreEQ(History[1].score, History[2].score)
    /\ History[1].feedback /= History[2].feedback
    /\ returned[1].feedback = History[1].feedback

\* C5: once an attempt has passed or reached the threshold the run has
\* stopped as PASSED: that attempt is the last one recorded, no synthesis or
\* reflection generation was requested after it, and the best outcome is
\* returned.
C5_StopsOnPassOrThreshold ==
    \A i \in DOMAIN History :
        StopsRecord(History[i]) =>
            /\ pc = "PASSED"
            /\ i = Len(History)
            /\ llm_calls.synthesis = i
            /\ llm_calls.reflection = i - 1
            /\ returned /= <<>>
            /\ returned = best_outcome

\* A failing attempt that reached the threshold stopped the run early.
C5_Witness ==
    /\ pc = "PASSED"
    /\ Len(History) < config.max_iterations
    /\ ~History[Len(History)].passed
    /\ ScoreGE(History[Len(History)].score, config.score_threshold)
    /\ llm_calls.reflection = Len(History) - 1

\* C6: a reflection generation is requested only after a failing attempt
\* that is not the last permitted one, so a run that ends EXHAUSTED has made
\* one reflection request fewer than attempts.
C6_NoReflectionAfterLastAttempt ==
    llm_calls.reflection <=
        Cardinality({ i \in DOMAIN History :
                        i < config.max_iterations /\ ~StopsRecord(History[i]) })

\* C7: with max_iterations >= 1 and a backend that does not raise, run makes
\* at least one attempt and returns a non-null outcome: the assertion never
\* fails, and the first attempt's outcome becomes the best outcome.
C7_ReturnsNonNull ==
    config.max_iterations >= 1 =>
        /\ pc /= "ASSERT_FAILED"
        /\ pc \in {"REFLECT", "PASSED", "EXHAUSTED"} => Len(History) >= 1
        /\ Len(History) >= 1 => best_outcome /= <<>>
        /\ Len(History) = 1 =>
              best_outcome[1].feedback = History[1].feedback
        /\ Terminal => returned /= <<>> /\ returned = best_outcome

\* The only permitted attempt failed and its outcome is returned.
C7_Witness ==
    /\ pc = "EXHAUSTED"
    /\ config.max_iterations = 1
    /\ Len(History) = 1
    /\ returned /= <<>>
    /\ ~returned[1].passed

----------------------------------------------------------------------------
(* Properties of evaluate_candidate, checked under SpecEval *)

Examples == task.examples
Code == candidate[1].code
Loads == Code.load = "ok"
Callable == Loads /\ EntryCallable(Code)

\* The examples on which the candidate raises or returns an unexpected value
FailingExamples ==
    { i \in DOMAIN Examples : Code.result[i] /= Examples[i].expected }

\* C8: for a task with at least one example and any candidate, the score
\* lies in [0, 1], and score = 1.0 iff the failure list is empty iff passed.
C8_ScoreAgreesWithPassed ==
    (outcome /= <<>> /\ Len(Examples) >= 1) =>
        LET o == outcome[1]
        IN  /\ o.score.den > 0
            /\ 0 <= o.score.num
            /\ o.score.num <= o.score.den
            /\ ScoreEQ(o.score, One) <=> (o.details.failures = <<>>)
            /\ (o.details.failures = <<>>) <=> o.passed

\* A candidate that fails some examples and satisfies others.
C8_Witness ==
    /\ pc = "EVAL_DONE"
    /\ Len(Examples) >= 1
    /\ ~outcome[1].passed
    /\ outcome[1].score.num > 0
    /\ outcome[1].score.num < outcome[1].score.den

\* C9: for a candidate that loads and defines the entry point, with m of the
\* n >= 1 examples raising or mismatching, the failure list has m entries
\* and the score is (n - m) / n.
C9_ScoreCountsFailingExamples ==
    (outcome /= <<>> /\ Callable /\ Len(Examples) >= 1) =>
        LET o == outcome[1]
            n == Len(Examples)
            m == Cardinality(FailingExamples)
        IN  /\ Len(o.details.failures) = m
            /\ o.score = [num |-> n - m, den |-> n]
            /\ o.passed <=> (m = 0)
            /\ o.feedback.lines = o.details.failures

\* One mismatch out of four examples: score 0.75, not passed, one mismatch line.
C9_Witness ==
    /\ pc = "EVAL_DONE"
    /\ Callable
    /\ Len(Examples) = 4
    /\ Cardinality(FailingExamples) = 1
    /\ ~outcome[1].passed
    /\ ScoreEQ(outcome[1].score, [num |-> 3, den |-> 4])
    /\ Len(outcome[1].feedback.lines) = 1
    /\ outcome[1].feedback.lines[1][1] = "Mismatch"

\* C10: when the candidate fails to load, no example is invoked, the report
\* is failed with no outputs, the failure list is the compilation-error
\* message once per example (once without examples), and the score is 0.0.
C10_LoadFailureScoresZero ==
    (outcome /= <<>> /\ ~Loads) =>
        LET o == outcome[1]
            run == execution[1]
        IN  /\ run.invoked = <<>>
            /\ ~run.report.passed
            /\ run.report.outputs = <<>>
            /\ Len(run.report.failures) = Max(Len(Examples), 1)
            /\ \A i \in DOMAIN run.report.failures :
                  /\ run.report.failures[i] = run.report.failures[1]
                  /\ run.report.failures[i][1] = "Compilation error"
            /\ ~o.passed
            /\ o.score.num = 0
            /\ o.details.failures = run.report.failures

\* A load failure on a task without examples.
C10_Witness ==
    /\ pc = "EVAL_DONE"
    /\ ~Loads
    /\ Len(Examples) = 0
    /\ Len(outcome[1].details.failures) = 1
    /\ outcome[1].score.num = 0

----------------------------------------------------------------------------
(* Failure handling *)

\* The attempt just evaluated a candidate whose source fails to load
LoadFailed == candidate /= <<>> /\ outcome /= <<>> /\ Code.load = "error"

\* C11 as stated: when the backend returns source that fails to load, the
\* outcome is not passed, has score 0.0, its feedback contains "Compilation
\* error", and the failure list has exactly one entry, prefixed
\* "Compilation error".
C11_ExactlyOneCompilationEntry ==
    LoadFailed =>
        LET o == outcome[1]
        IN  /\ ~o.passed
            /\ o.score.num = 0
            /\ \E i \in DOMAIN o.feedback.lines :
                  o.feedback.lines[i][1] = "Compilation error"
            /\ Len(o.details.failures) = 1
            /\ o.details.failures[1][1] = "Compilation error"

\* C11: when the backend returns source that fails to load, the outcome is
\* not passed, has score 0.0, its feedback lists the failures, and the
\* failure list holds the same "Compilation error" message once per example
\* of the task, and once when the task has no example.
C11_CompilationEntryPerExample ==
    LoadFailed =>
        LET o == outcome[1]
        IN  /\ ~o.passed
            /\ o.score.num = 0
            /\ o.feedback.header = "Failures detected:"
            /\ o.feedback.lines = o.details.failures
            /\ Len(o.details.failures) = Max(Len(Examples), 1)
            /\ \A i \in DOMAIN o.details.failures :
                  o.details.failures[i] = FormatCompileError(Code)

\* A run whose second attempt fails to load on a task with two examples.
C11_Witness ==
    /\ LoadFailed
    /\ pc = "REFLECT"
    /\ attempt = 2
    /\ Len(Examples) = 2
    /\ Len(outcome[1].details.failures) = 2
    /\ outcome[1].feedback.lines[2][1] = "Compilation error"

\* The candidate loads and the namespace binds the entry point to nothing
\* or to a value that cannot be called
EntryMissing ==
    candidate /= <<>> /\ Loads /\ Code.entry \in {"absent", "value"}

\* C12: when the candidate loads but the entry-point name is absent from the
\* namespace or bound to a non-callable value, the report fails with exactly
\* one descriptive failure and no outputs, and no example is invoked.
C12_MissingEntryPointFailsAtOnce ==
    (pc = "EVAL_DONE" /\ EntryMissing) =>
        LET run == execution[1]
        IN  /\ run.invoked = <<>>
            /\ ~run.report.passed
            /\ run.report.outputs = <<>>
            /\ run.report.failures = <<EntryPointFailure(task)>>
            /\ outcome[1].details.failures = run.report.failures
            /\ outcome[1].details.outputs = <<>>

\* An entry point bound to a value that is not callable, on three examples.
C12_Witness ==
    /\ pc = "EVAL_DONE"
    /\ Loads
    /\ Code.entry = "value"
    /\ Len(Examples) = 3
    /\ execution[1].invoked = <<>>
    /\ Len(execution[1].report.failures) = 1
    /\ execution[1].report.failures[1][1] = "Entry point not found"

\* C13: on a task with at least one example and with a threshold in (0, 1],
\* an attempt whose candidate lacks a callable entry point is a failing
\* attempt: the run never ends as PASSED with it, the controller goes on to
\* the reflection and the next attempt, or exhausts.
C13_MissingEntryPointNeverStopsRun ==
    (EntryMissing /\ outcome /= <<>> /\ Len(Examples) >= 1
       /\ config.score_threshold.num > 0) =>
        /\ pc /= "PASSED"
        /\ pc \in {"REFLECT", "GENERATE", "EXHAUSTED", "RAISED",
                   "CANDIDATE_RAISED"}

\* The examples on which the call of the candidate raises
RaisingExamples == { i \in DOMAIN Examples : Code.result[i] = Raises }

\* The number of examples among the first i whose call returns
RECURSIVE ReturnedUpTo(_)
ReturnedUpTo(i) ==
    IF i = 0
    THEN 0
    ELSE ReturnedUpTo(i - 1) + (IF i \in RaisingExamples THEN 0 ELSE 1)

\* C14: for a candidate that loads and defines the entry point, every
\* example is invoked exactly once, in task order, whatever earlier examples
\* did; a raising example adds one "Runtime error" failure and no output, a
\* returning example adds its result to the outputs in example order, also
\* when it mismatches, so the outputs and the raising examples together
\* number the examples.
C14_EveryExampleInvokedOnce ==
    (pc = "EVAL_DONE" /\ Callable) =>
        LET run == execution[1]
            n == Len(Examples)
        IN  /\ run.invoked = [i \in 1..n |-> i]
            /\ Len(run.report.outputs) + Cardinality(RaisingExamples) = n
            /\ \A i \in 1..n :
                  i \notin RaisingExamples =>
                      run.report.outputs[ReturnedUpTo(i)] = Code.result[i]
            /\ Cardinality({ k \in DOMAIN run.report.failures :
                               run.report.failures[k] = RuntimeFailure })
                  = Cardinality(RaisingExamples)
            /\ outcome[1].details.outputs = run.report.outputs

\* The first example raises, the second mismatches, the third raises and
\* the fourth returns the expected value.
C14_Witness ==
    /\ pc = "EVAL_DONE"
    /\ Callable
    /\ Len(Examples) = 4
    /\ RaisingExamples = {1, 3}
    /\ Code.result[2] /= Examples[2].expected
    /\ Code.result[4] = Examples[4].expected
    /\ execution[1].invoked = <<1, 2, 3, 4>>
    /\ execution[1].report.outputs = <<Code.result[2], Code.result[4]>>
    /\ Len(execution[1].report.failures) = 3

\* C15: a failed attempt never aborts the evaluation of the task: whatever
\* the candidate does, evaluating it yields an outcome and run does not
\* raise because of it; only exceptions of the backend leave run.
C15_CandidateNeverAbortsRun ==
    /\ pc /= "CANDIDATE_RAISED"
    /\ (pc \in {"REFLECT", "PASSED"} => outcome /= <<>>)

\* The attempts recorded in the state are 1, 2, .. in order
HistoryInOrder == \A i \in DOMAIN History : History[i].attempt = i

\* What the caller finds after generate raised inside run
RaisedLeavesCompletedAttempts ==
    pc = "RAISED" =>
        /\ returned = <<>>
        /\ last_state = "state"
        /\ HistoryInOrder
        /\ state.attempt = Len(History)
        /\ IF prompt[1].kind = "synthesis"
           THEN /\ Len(History) = attempt - 1
                /\ llm_calls.synthesis = attempt
                /\ llm_calls.reflection = attempt - 1
           ELSE /\ Len(History) = attempt
                /\ llm_calls.synthesis = attempt
                /\ llm_calls.reflection = attempt

\* C16: when generate raises during a run, run neither catches nor retries:
\* the error reaches the caller (run returns nothing and takes no further
\* step, no request is repeated), the step that raised appends no attempt
\* record, and the state exposed by last_state holds exactly the attempts
\* completed before the failure.
C16_BackendErrorPropagates ==
    /\ [](RaisedLeavesCompletedAttempts
            /\ llm_calls.synthesis <= Len(History) + 1
            /\ llm_calls.reflection <= Len(History))
    /\ [][/\ pc /= "RAISED"
          /\ pc' = "RAISED" => state' = state /\ returned' = returned]_vars

\* The synthesis request of the second attempt raises after one recorded
\* attempt.
C16_Witness ==
    /\ pc = "RAISED"
    /\ prompt[1].kind = "synthesis"
    /\ attempt = 2
    /\ Len(History) = 1
    /\ last_state = "state"
    /\ returned = <<>>

----------------------------------------------------------------------------
(* Feedback *)

\* The number of examples among the first i that raise or mismatch
RECURSIVE FailedUpTo(_)
FailedUpTo(i) ==
    IF i = 0
    THEN 0
    ELSE FailedUpTo(i - 1) + (IF i \in FailingExamples THEN 1 ELSE 0)

\* The failure string the executor produces for the failing example i
FailureOf(i) ==
    IF Code.result[i] = Raises
    THEN RuntimeFailure
    ELSE MismatchFailure(Examples[i], Code.result[i])

\* C17: the feedback of the outcome is exactly "All tests passed." when the
\* report passed; otherwise it is the header "Failures detected:" followed
\* by the failure strings, one a line, in the order the executor produced
\* them, which is the order of the examples, and details.failures is that
\* same list.
C17_FeedbackListsFailuresInOrder ==
    pc = "EVAL_DONE" =>
        LET o == outcome[1]
            report == execution[1].report
        IN  /\ report.passed =>
                  o.feedback = [header |-> "All tests passed.", lines |-> <<>>]
            /\ ~report.passed =>
                  /\ o.feedback.header = "Failures detected:"
                  /\ o.feedback.lines = report.failures
            /\ o.details.failures = report.failures
            /\ Callable =>
                  /\ Len(report.failures) = Cardinality(FailingExamples)
                  /\ \A i \in FailingExamples :
                        o.feedback.lines[FailedUpTo(i)] = FailureOf(i)

\* The first example mismatches, the second raises, the third is satisfied.
C17_Witness ==
    /\ pc = "EVAL_DONE"
    /\ Callable
    /\ Len(Examples) = 3
    /\ FailingExamples = {1, 2}
    /\ Code.result[2] = Raises
    /\ outcome[1].feedback.header = "Failures detected:"
    /\ outcome[1].feedback.lines =
          <<MismatchFailure(Examples[1], Code.result[1]), RuntimeFailure>>

----------------------------------------------------------------------------
(* Repeated runs, checked under SpecRerun *)

\* C18: with a backend of fixed canned responses and a fixed task, a second
\* call of run on the same pipeline returns the outcome of the first call
\* and leaves the same state history; nothing of the first run reaches the
\* second.
C18_RerunIsIdempotent ==
    (first_run /= <<>> /\ pc \in {"PASSED", "EXHAUSTED"}) =>
        /\ returned = first_run[1].returned
        /\ state.history = first_run[1].history

----------------------------------------------------------------------------
(* Metadata of the best candidate *)

\* The history record of the first attempt that reached the best score
BestRecord ==
    CHOOSE r \in { History[i] : i \in DOMAIN History } :
        /\ ScoreEQ(r.score, BestScore(state))
        /\ \A i \in DOMAIN History :
              ScoreEQ(History[i].score, BestScore(state)) =>
                  r.attempt <= History[i].attempt

\* C19: after run returns, the details of the returned outcome carry a
\* "candidate" entry with the attempt number, origin and code of the
\* candidate that produced the best outcome, and the pipeline exposes that
\* candidate as best_candidate, whether the best attempt passed or failed.
C19_ReturnedOutcomeNamesCandidate ==
    (pc \in {"PASSED", "EXHAUSTED"} /\ returned /= <<>>) =>
        /\ "best_candidate" \in PipelineAttributes
        /\ "candidate" \in DOMAIN returned[1].details
        /\ returned[1].details.candidate.attempt = BestRecord.attempt
        /\ returned[1].details.candidate.origin = BestRecord.origin
        /\ returned[1].details.candidate.code = BestRecord.code

----------------------------------------------------------------------------
(* Guidance, checked under SpecGuidance *)

\* The stripped text the backend gives to the reflection request after
\* attempt j
ReflectionOf(j) == Strip(canned[1].reflection[j])

\* The stripped text of the most recent non-empty reflection among those
\* after the attempts 1..j (<<>> when there is none)
RECURSIVE LatestAdvice(_)
LatestAdvice(j) ==
    IF j = 0
    THEN <<>>
    ELSE IF ReflectionOf(j) /= EmptyText
         THEN <<ReflectionOf(j)>>
         ELSE LatestAdvice(j - 1)

\* The synthesis prompt of the current attempt has been sent
SynthesisPromptSent == prompt /= <<>> /\ prompt[1].kind = "synthesis"

\* C20 as stated: the guidance in the synthesis prompt of attempt n > 1 is
\* the text of the reflection generated from attempt n - 1, and attempt 1
\* uses the fixed default guidance.
C20_GuidanceIsPreviousReflection ==
    SynthesisPromptSent =>
        IF attempt = 1
        THEN prompt[1].guidance = DefaultGuidelines
        ELSE prompt[1].guidance = ReflectionOf(attempt - 1)

\* C20: the guidance in the synthesis prompt of attempt n > 1 is the
\* stripped text of the most recent reflection among those of the attempts
\* 1..n-1 whose stripped text is not empty (that of attempt n - 1 when it is
\* not empty), and the fixed default guidance when there is none; attempt 1
\* uses the default guidance.
C20_GuidanceIsLatestNonEmptyReflection ==
    /\ pc /= "NOT_STARTED" =>
          guidance_override = LatestAdvice(llm_calls.reflection)
    /\ SynthesisPromptSent =>
          /\ llm_calls.reflection \in {attempt - 1, attempt}
          /\ prompt[1].guidance =
                IF LatestAdvice(attempt - 1) = <<>>
                THEN DefaultGuidelines
                ELSE LatestAdvice(attempt - 1)[1]
          /\ (attempt > 1 /\ ReflectionOf(attempt - 1) /= EmptyText) =>
                prompt[1].guidance = ReflectionOf(attempt - 1)
          /\ attempt = 1 => prompt[1].guidance = DefaultGuidelines

\* The reflection after attempt 1 gives advice, the one after attempt 2 is
\* white space: the prompt of attempt 3 carries the advice of attempt 1.
C20_Witness ==
    /\ SynthesisPromptSent
    /\ attempt = 3
    /\ pc = "REFLECT"
    /\ ReflectionOf(1) = AdviceOf(1)
    /\ canned[1].reflection[2] = [pad |-> TRUE, body |-> EmptyText]
    /\ prompt[1].guidance = AdviceOf(1)

----------------------------------------------------------------------------
(* The history digest of the synthesis prompt, checked under SpecPrompt *)

\* The greatest score among the records 1..n of the history
GreatestScore(n) ==
    LET best == CHOOSE i \in 1..n :
                    \A j \in 1..n : ScoreGE(History[i].score, History[j].score)
    IN  History[best].score

\* C21: the synthesis prompt holds a history digest only when the history
\* is not empty: the prompt of attempt 1 has none, and the prompt of attempt
\* n > 1 reports the number, the feedback and the pass flag of attempt n - 1
\* and, as best score, the maximum of the scores of the attempts 1..n-1.
C21_DigestOfPreviousAttempt ==
    pc = "PROMPT_DONE" =>
        LET digest == prompt[1].digest
        IN  /\ (digest = <<>>) <=> (History = <<>>)
            /\ attempt = 1 => digest = <<>>
            /\ attempt > 1 =>
                  /\ digest[1].attempt = attempt - 1
                  /\ digest[1].feedback = History[attempt - 1].feedback
                  /\ digest[1].passed = History[attempt - 1].passed
                  /\ digest[1].best_score = Fmt2(GreatestScore(attempt - 1))

\* The prompt of attempt 3 after attempt 1 scored 0.50 and attempt 2 scored
\* 0.00: the digest reports attempt 2 and the best score 0.50.
C21_Witness ==
    /\ pc = "PROMPT_DONE"
    /\ attempt = 3
    /\ ScoreEQ(History[1].score, [num |-> 1, den |-> 2])
    /\ History[2].score.num = 0
    /\ prompt[1].digest[1].attempt = 2
    /\ prompt[1].digest[1].best_score = 50
    /\ prompt[1].digest[1].feedback = History[2].feedback

----------------------------------------------------------------------------
(* Code extraction, checked under SpecExtract *)

\* C22: a generation that wraps a source in one fenced block, with or without
\* a language tag, extracts to the source trimmed, and a generation that is
\* not fenced extracts to its whole text trimmed.
C22_ExtractsFencedSource ==
    pc = "EXTRACTED" =>
        IF canned.fenced
        THEN candidate[1] = StripText(canned.source)
        ELSE candidate[1] = StripText(canned.text)

----------------------------------------------------------------------------
(* The frame of an execution, checked under SpecRerun *)

\* C23: executing a candidate leaves the task as it was: no step of a run
\* changes the examples' arguments or expected values, so every attempt and
\* every later run is evaluated against the same example data.
C23_ExecutionLeavesTaskUnchanged == [][task' = task]_vars

----------------------------------------------------------------------------
(* Concurrent runs, checked under SpecWorkers *)

Alone(w) ==
    RunAlone(workers[w].task, workers[w].program.code,
             [attempt |-> 0, history |-> <<>>], <<>>, 1)

WorkerDone(w) == workers[w].pc \in {"PASSED", "EXHAUSTED"}

\* C24: runs of different tasks on concurrent workers, each with a pipeline,
\* backend and executor of its own, do not interfere: under every
\* interleaving the history and the returned outcome of a finished run are
\* those of running its task alone, a run in progress has a prefix of that
\* history, and the shared table of allowed built-ins is never modified.
C24_WorkersDoNotInterfere ==
    /\ safe_builtins = SafeBuiltins
    /\ \A w \in Workers :
          /\ WorkerDone(w) =>
                /\ workers[w].state.history = Alone(w).history
                /\ workers[w].returned = Alone(w).returned
          /\ ~WorkerDone(w) =>
                /\ Len(workers[w].state.history) <= Len(Alone(w).history)
                /\ workers[w].state.history =
                      SubSeq(Alone(w).history, 1, Len(workers[w].state.history))

\* One worker has finished a run whose program rebound a built-in name in
\* its namespace while the other is between building its namespace and
\* calling its entry point, with the built-in still in place
C24_Witness ==
    /\ WorkerDone("w1")
    /\ workers["w1"].program.rebinds
    /\ workers["w1"].program.code.entry = "callable"
    /\ workers["w1"].returned /= <<>>
    /\ workers["w2"].pc = "LOADED"
    /\ workers["w2"].state.history /= <<>>
    /\ workers["w2"].namespace[1].builtins = SafeBuiltins
    /\ workers["w2"].program.code.entry = "callable"
    /\ workers["w2"].task /= workers["w1"].task

----------------------------------------------------------------------------
(* The batch driver, checked under SpecBatch *)

\* The challenge entries main has gone through
Processed == 1..batch.index

NoExamples(k) == BuildExamples(batch.payloads[k]) = <<>>

ResultIds == {batch.results[i].task_id : i \in DOMAIN batch.results}

\* C25: the batch driver filters the tasks with no example before it calls
\* the core: run is never called on a task whose example list is empty, and
\* such a task contributes no result record.
C25_EmptyTasksAreFiltered ==
    /\ \A i \in DOMAIN batch.run_calls : batch.run_calls[i].examples /= <<>>
    /\ \A k \in Processed : NoExamples(k) => k \notin ResultIds
    /\ Len(batch.run_calls) =
          Cardinality({k \in Processed : ~NoExamples(k)})

\* main went past an entry whose only pair is a test pair without solution
\* and kept a result for another entry
C25_Witness ==
    /\ batch.index = 2
    /\ batch.payloads[1] = [train |-> 0, test |-> "unsolved"]
    /\ ~NoExamples(2)
    /\ ResultIds = {2}
    /\ Len(batch.run_calls) = 1

PassedResults == {i \in DOMAIN batch.results : batch.results[i].passed}

\* C26: the batch summary has the fields total, passed, pass_rate,
\* mean_score, median_score and total_runtime_sec for every list of results,
\* the empty list included, with total the number of results, passed the
\* number of passed results and pass_rate = passed / total when total > 0.
C26_SummaryHasAllFields ==
    batch.summary /= <<>> =>
        LET summary == batch.summary[1]
        IN  /\ DOMAIN summary = PrintedFields
            /\ summary.total = Len(batch.results)
            /\ summary.passed = Cardinality(PassedResults)
            /\ summary.total > 0 =>
                  ScoreEQ(summary.pass_rate,
                          [num |-> summary.passed, den |-> summary.total])

\* The run of the batch that gave a result or raised, by challenge entry
RunOf(k) == CHOOSE c \in {batch.codes[j] : j \in DOMAIN batch.codes} : c.id = k

\* The history a run of entry k leaves when it is the only run of a pipeline
HistoryAlone(k) ==
    IF RunOf(k).code = <<>>
    THEN <<>>
    ELSE RunAlone(MakeTaskSpec(batch.payloads[k])[1], RunOf(k).code[1],
                  [attempt |-> 0, history |-> <<>>], <<>>, 1).history

\* C30: on a pipeline reused for several tasks one after another each run
\* starts from a fresh empty state: the attempts of each result record is
\* the number of attempts of that task's run only, and last_state and
\* summarize() after a run describe the most recent run only.
C30_EachRunStartsFresh ==
    /\ \A i \in DOMAIN batch.results :
          /\ batch.results[i].attempts = Len(HistoryAlone(batch.results[i].task_id))
          /\ batch.results[i].attempts <= config.max_iterations
    /\ batch.codes /= <<>> =>
          LET latest == batch.codes[Len(batch.codes)].id
          IN  /\ batch.last_state[1].history = HistoryAlone(latest)
              /\ Len(PipelineSummary(batch.last_state)) = Len(HistoryAlone(latest))
              /\ \A i \in DOMAIN HistoryAlone(latest) :
                    PipelineSummary(batch.last_state)[i].attempt = i

\* The first task took every attempt allowed and the second passed at once
\* on the same pipeline: the second result counts one attempt
C30_Witness ==
    /\ Len(batch.results) = 2
    /\ batch.results[1].attempts = MaxBatchIterations
    /\ ~batch.results[1].passed
    /\ batch.results[2].attempts = 1
    /\ batch.results[2].passed
    /\ Len(batch.last_state[1].history) = 1
    /\ Len(PipelineSummary(batch.last_state)) = 1

----------------------------------------------------------------------------
(* The mismatch line and its parse, checked under SpecDiagnosis *)

Has(text, piece) == \E i \in DOMAIN text : text[i] = piece

\* The layout of the mismatch line of the failure at hand
LayoutOfLine ==
    <<"Mismatch for input args=">> \o ReprArgs(diagnosis.args)
        \o <<" kwargs=">> \o ReprKwargs(diagnosis.kwargs)
        \o <<":", " expected ">> \o Repr(diagnosis.expected)
        \o <<" got ">> \o Repr(diagnosis.got)

\* The parse gave back the values of the failure
Recovered ==
    diagnosis.issues = <<[kind |-> "mismatch",
                          args |-> diagnosis.args,
                          kwargs |-> diagnosis.kwargs,
                          expected |-> diagnosis.expected,
                          got |-> diagnosis.got]>>

\* C27 as stated: every mismatch line has the layout "Mismatch for input
\* args=<args> kwargs=<kwargs>: expected <expected> got <actual>" and the
\* parser recovers args, kwargs, expected and actual from it, for all
\* example values.
C27_ParseRecoversEveryMismatch ==
    diagnosis.pc = "PARSED" =>
        /\ diagnosis.feedback[2] = LayoutOfLine
        /\ Recovered

\* The values the layout lets the parser find: every repr is a literal, no
\* " expected " and no " kwargs=" before the separators of the line, and no
\* " got " in the expected value
IsLiteral(val) == val.kind /= "nan"

Unambiguous ==
    /\ IsLiteral(diagnosis.args) /\ IsLiteral(diagnosis.expected)
    /\ IsLiteral(diagnosis.got)
    /\ ~Has(ReprArgs(diagnosis.args), " expected ")
    /\ ~Has(ReprArgs(diagnosis.args), " kwargs=")
    /\ ~Has(ReprKwargs(diagnosis.kwargs), " expected ")
    /\ ~Has(Repr(diagnosis.expected), " got ")

\* C27 (amended): every mismatch line has the layout, and the parser
\* recovers the four values exactly when their reprs are literals and the
\* separators of the line are the first of their kind; for every other
\* mismatch line it gives one message entry holding the line.
C27_ParseRecoversUnambiguousMismatch ==
    diagnosis.pc = "PARSED" =>
        /\ diagnosis.feedback[2] = LayoutOfLine
        /\ Unambiguous => Recovered
        /\ ~Unambiguous =>
              diagnosis.issues = <<MessageIssue(diagnosis.feedback[2])>>

\* A parsed mismatch whose actual value is a string holding " got " and
\* whose keyword argument ends in a colon
C27_Witness ==
    /\ diagnosis.pc = "PARSED"
    /\ Recovered
    /\ diagnosis.got = StrValue(<<" got ">>)
    /\ diagnosis.kwargs = <<StrValue(<<":">>)>>
    /\ diagnosis.args.kind = "str"
    /\ diagnosis.expected.kind = "int"

----------------------------------------------------------------------------
(* The state as a log, checked under Spec *)

\* A step that evaluates an attempt: it leaves the synthesis request for the
\* termination check
EvaluatesAttempt == pc = "GENERATE" /\ pc' \in {"PASSED", "REFLECT"}

\* C28: the synthesis state is an append-only log: in every reachable state
\* the i-th record has attempt number i and the attempt counter is the
\* length of the history; a step that evaluates an attempt appends exactly
\* one record, of that attempt, and every other step leaves the history as
\* it is, so earlier records are never changed or removed.
C28_HistoryIsAppendOnly ==
    /\ [](HistoryInOrder /\ state.attempt = Len(History))
    /\ [][IF EvaluatesAttempt
          THEN /\ Len(History') = Len(History) + 1
               /\ SubSeq(History', 1, Len(History)) = History
               /\ History'[Len(History')].attempt = attempt
               /\ History'[Len(History')].passed = outcome'[1].passed
               /\ History'[Len(History')].score = outcome'[1].score
          ELSE History' = History]_vars

\* A finished run of two attempts: both records are in the history, in order
C28_Witness ==
    /\ Terminal
    /\ Len(History) = 2
    /\ state.attempt = 2
    /\ History[1].attempt = 1
    /\ History[2].attempt = 2
    /\ History[1].code /= History[2].code

----------------------------------------------------------------------------
(* The controller as a state machine, checked under SpecReturning *)

Attempting == pc \in {"GENERATE", "REFLECT"}

LastRecordStops == History /= <<>> /\ StopsRecord(History[Len(History)])

----------------------------------------------------------------------------
(* Early stops, checked under SpecEarly *)

\* The last record of the history
LastRecord == History[Len(History)]

\* run returned with attempts to spare
StoppedEarly == Terminal /\ Len(History) < config.max_iterations

\* C31: in every state of a run, every history record but the last neither
\* passed nor reached the threshold; hence a run that stops before
\* max_iterations attempts returns the outcome of its last recorded attempt.
C31_OnlyLastRecordStops ==
    /\ \A i \in 1..(Len(History) - 1) :
          /\ ~History[i].passed
          /\ ~ScoreGE(History[i].score, config.score_threshold)
    /\ StoppedEarly =>
          /\ returned = outcome
          /\ returned /= <<>>
          /\ returned[1].passed = LastRecord.passed
          /\ returned[1].score = LastRecord.score
          /\ returned[1].feedback = LastRecord.feedback

\* A run allowed three attempts that stopped at its second, after a first
\* attempt that scored above zero
C31_Witness ==
    /\ StoppedEarly
    /\ Len(History) = 2
    /\ ScoreGT(History[1].score, [num |-> 0, den |-> 1])
    /\ ~StopsRecord(History[1])
    /\ returned = outcome

\* Some attempt recorded in the history passed
SomeRecordPassed == \E i \in DOMAIN History : History[i].passed

\* C32: for a task with at least one example and a threshold in (0, 1], the
\* outcome run returns has passed = true if and only if some attempt
\* recorded in the history passed: an earlier failing attempt never shadows
\* a passing one.
C32_ReturnsPassedIffSomeAttemptPassed ==
    (Terminal /\ Len(task.examples) >= 1) =>
        /\ returned /= <<>>
        /\ returned[1].passed <=> SomeRecordPassed

\* A run that returned a passing outcome after a failing attempt with a
\* score above zero
C32_Witness ==
    /\ Terminal
    /\ Len(History) >= 2
    /\ ~History[1].passed
    /\ ScoreGT(History[1].score, [num |-> 0, den |-> 1])
    /\ LastRecord.passed
    /\ returned /= <<>>
    /\ returned[1].passed

----------------------------------------------------------------------------
(* The default threshold, checked under SpecThreshold *)

DefaultThreshold == [num |-> DefaultThresholdPct, den |-> 100]

\* The report of the last execution lists at least one failure
LastExecutionFailed ==
    /\ execution /= <<>>
    /\ Len(execution[1].report.failures) >= 1

\* 1 - 1/n for the task of n examples
OneFailureScore ==
    [num |-> Len(task.examples) - 1, den |-> Len(task.examples)]

\* C33: with the default threshold 0.99 and a task of 1 to 99 examples, an
\* attempt with at least one failure entry scores at most 1 - 1/n, which is
\* below the threshold, so run stops before max_iterations attempts only if
\* its last attempt passed.
C33_DefaultThresholdStopsOnPassOnly ==
    (/\ config.score_threshold = DefaultThreshold
     /\ Len(task.examples) \in 1..99) =>
        /\ LastExecutionFailed =>
              /\ outcome /= <<>>
              /\ ~outcome[1].passed
              /\ ScoreGE(OneFailureScore, outcome[1].score)
              /\ ~ScoreGE(outcome[1].score, config.score_threshold)
              /\ pc /= "PASSED"
        /\ \A i \in DOMAIN History :
              ~History[i].passed =>
                  ~ScoreGE(History[i].score, config.score_threshold)
        /\ StoppedEarly => LastRecord.passed

\* A candidate with one failure entry on a task of 99 examples scores 98/99
\* and run goes on
C33_Witness ==
    /\ config.score_threshold = DefaultThreshold
    /\ Len(task.examples) = 99
    /\ LastExecutionFailed
    /\ Len(execution[1].report.failures) = 1
    /\ outcome /= <<>>
    /\ ScoreEQ(outcome[1].score, [num |-> 98, den |-> 99])
    /\ pc = "REFLECT"

----------------------------------------------------------------------------
(* A maximum below one, checked under Spec *)

\* run was called with max_iterations < 1 and has ended
EndedWithoutAttempt == config.max_iterations < 1 /\ pc /= "NOT_STARTED"

\* What holds of such a run in every build: no backend call, no record, and
\* last_state is the fresh state of this run
NoAttemptLeavesFreshState ==
    EndedWithoutAttempt =>
        /\ llm_calls.synthesis = 0
        /\ llm_calls.reflection = 0
        /\ History = <<>>
        /\ state.attempt = 0
        /\ last_state = "state"
        /\ returned = <<>>

\* C34: with max_iterations < 1 run makes no backend call and records no
\* attempt, and it fails with an assertion error instead of returning a null
\* outcome; last_state is then a fresh state with an empty history.
C34_NoAttemptFailsAssertion ==
    EndedWithoutAttempt =>
        /\ llm_calls.synthesis = 0
        /\ llm_calls.reflection = 0
        /\ History = <<>>
        /\ last_state = "state"
        /\ pc = "ASSERT_FAILED"

----------------------------------------------------------------------------
(* Runs that raise in a batch, checked under SpecBatch *)

\* The runs of the batch that returned, and the entries they were for
ReturnedRuns == {j \in DOMAIN batch.codes : batch.codes[j].code /= <<>>}
ReturnedIds == {batch.codes[j].id : j \in ReturnedRuns}
RaisedIds == {batch.codes[j].id : j \in DOMAIN batch.codes \ ReturnedRuns}

\* C35: in batch evaluation a task whose run raises is skipped without a
\* result record and does not stop the batch: every later task of the list
\* is still run, and the results hold, in task order, exactly one record per
\* task whose run returned.
C35_RaisingRunIsSkipped ==
    /\ {batch.codes[j].id : j \in DOMAIN batch.codes} =
          {k \in Processed : ~NoExamples(k)}
    /\ Len(batch.codes) = Cardinality({k \in Processed : ~NoExamples(k)})
    /\ RaisedIds \cap ResultIds = {}
    /\ ResultIds = ReturnedIds
    /\ Len(batch.results) = Cardinality(ReturnedIds)
    /\ \A i, j \in DOMAIN batch.results :
          i < j => batch.results[i].task_id < batch.results[j].task_id
    /\ batch.pc /= "LOOP" => batch.index = Len(batch.payloads)

\* The run of the first task raised, the second task was run and its result
\* is the only one of the batch
C35_Witness ==
    /\ batch.pc = "DONE"
    /\ Len(batch.payloads) = 2
    /\ RaisedIds = {1}
    /\ ResultIds = {2}
    /\ Len(batch.results) = 1
    /\ Len(batch.run_calls) = 2

====
